---- MODULE Spec2Model ----
(***************************************************************************)
(* A model of the expense tracker: the expense repository                  *)
(* (ExpenseManager), the statistics engine (StatisticsModule), the         *)
(* calendar and modal views, the storage adapter (StorageManager) and the  *)
(* application controller (AppController).                                 *)
(*                                                                         *)
(* JavaScript values are held as tagged records, [type |-> ..., val |->    *)
(* ...]; a string is the sequence of its characters; an object is a        *)
(* function from its keys to values; an array is a sequence of values.     *)
(* An instant is held as [day, ms]: whole days since 1970-01-01 (UTC) and  *)
(* the milliseconds into that day, so that every number fits the checker's *)
(* integers.                                                               *)
(***************************************************************************)
EXTENDS Integers, Sequences, FiniteSets, TLC

VARIABLES
    clock,              \* the system clock read by Date.now() / new Date()
    DEFAULT_CATEGORIES, \* CONFIG.DEFAULT_CATEGORIES (an array object, so mutable)
    expenses,           \* ExpenseManager._expenses
    categories,         \* ExpenseManager._categories
    categoriesShared,   \* ExpenseManager._categories is the very array CONFIG.DEFAULT_CATEGORIES
    settings,           \* StatisticsModule._settings
    calendarExpenses,   \* CalendarModule._expenses
    modal,              \* ModalModule: _currentDate, _currentCategory, _expenses, visibility, rendered list
    storage,            \* localStorage item CONFIG.STORAGE_KEY: the stored text, or NoItem
    form,               \* the budget form fields #totalBudget, #startDate, #endDate
    isInitialized,      \* AppController._isInitialized
    handlers,           \* how many handlers each bound event of the page has
    _currentDate,       \* CalendarModule._currentDate
    timeout,            \* the timer the debounced budget handler holds (its closure's timeout)
    timers,             \* the timers the browser has pending, each with its id and due instant
    reader,             \* the file reads under way, each to call its onload once
    remainingCard,      \* the classes of the remaining-budget card
    warning,            \* the days-remaining banner #daysRemaining: hidden or not, and its text
    last                \* the most recent call: its name, arguments, outcome and the state before it

page == <<handlers, _currentDate, timeout, timers, reader>>

view == <<remainingCard, warning>>

vars == <<clock, DEFAULT_CATEGORIES, expenses, categories, categoriesShared,
          settings, calendarExpenses, modal, storage, form, isInitialized, page, view,
          last>>

----------------------------------------------------------------------------
(* Bounds of the model.                                                    *)

\* the most records the repository holds
MaxExpenses == 2
\* the most clock ticks (milliseconds) that pass in a run
MaxTicks == 1

----------------------------------------------------------------------------
(* JavaScript values.                                                      *)

Undefined == [type |-> "undefined"]
Null == [type |-> "null"]
NaN == [type |-> "NaN"]
Infinity == [type |-> "Infinity"]
MinusInfinity == [type |-> "-Infinity"]
Num(n) == [type |-> "number", val |-> n]
Str(s) == [type |-> "string", val |-> s]
Bool(b) == [type |-> "boolean", val |-> b]
Arr(a) == [type |-> "array", val |-> a]
Obj(f) == [type |-> "object", val |-> f]
\* the outcome of a call that throws
Thrown(e) == [type |-> "thrown", val |-> e]

IsString(v) == v.type = "string"
IsObject(v) == v.type = "object"
IsArray(v) == v.type = "array"

\* o.k : the property k of o, undefined when o has none
Get(o, k) == IF IsObject(o) /\ k \in DOMAIN o.val THEN o.val[k] ELSE Undefined

\* ToBoolean
Truthy(v) ==
    CASE v.type = "undefined" -> FALSE
      [] v.type = "null" -> FALSE
      [] v.type = "NaN" -> FALSE
      [] v.type = "number" -> v.val # 0
      [] v.type = "string" -> v.val # <<>>
      [] v.type = "boolean" -> v.val
      [] OTHER -> TRUE

\* a || b
OrElse(a, b) == IF Truthy(a) THEN a ELSE b

\* { ...a, ...b } on the key-value functions of two objects
Spread(a, b) == [k \in DOMAIN a \cup DOMAIN b |-> IF k \in DOMAIN b THEN b[k] ELSE a[k]]

----------------------------------------------------------------------------
(* Strings.                                                                *)

Digits == <<"0", "1", "2", "3", "4", "5", "6", "7", "8", "9">>
IsDigit(c) == \E i \in 1..10 : Digits[i] = c
DigitValue(c) == (CHOOSE i \in 1..10 : Digits[i] = c) - 1
IsSpace(c) == c = " "

RECURSIVE TrimStart(_)
TrimStart(s) == IF s # <<>> /\ IsSpace(Head(s)) THEN TrimStart(Tail(s)) ELSE s

RECURSIVE TrimEnd(_)
TrimEnd(s) ==
    IF s # <<>> /\ IsSpace(s[Len(s)]) THEN TrimEnd(SubSeq(s, 1, Len(s) - 1)) ELSE s

\* String.prototype.trim
Trim(s) == TrimEnd(TrimStart(s))

\* the longest prefix of s made of digits
RECURSIVE DigitPrefix(_)
DigitPrefix(s) ==
    IF s # <<>> /\ IsDigit(Head(s)) THEN <<Head(s)>> \o DigitPrefix(Tail(s)) ELSE <<>>

\* the number a non-empty sequence of digits writes
RECURSIVE DigitsValue(_)
DigitsValue(s) ==
    IF s = <<>> THEN 0 ELSE 10 * DigitsValue(SubSeq(s, 1, Len(s) - 1)) + DigitValue(s[Len(s)])

\* the digits of n >= 0, at least `width` of them (String(n).padStart(width, '0'))
RECURSIVE PadDigits(_, _)
PadDigits(n, width) ==
    IF n < 10 /\ width <= 1 THEN <<Digits[n + 1]>>
    ELSE PadDigits(n \div 10, width - 1) \o <<Digits[(n % 10) + 1]>>

\* the number of a run of digits body, negated when neg; NaN for any other text
SignedDigits(neg, body) ==
    IF body # <<>> /\ DigitPrefix(body) = body
    THEN Num(IF neg THEN 0 - DigitsValue(body) ELSE DigitsValue(body))
    ELSE NaN

\* ToNumber of a string without its surrounding white space
TrimmedToNumber(t) ==
    IF t = <<>> THEN Num(0)
    ELSE SignedDigits(Head(t) = "-", IF Head(t) \in {"-", "+"} THEN Tail(t) ELSE t)

\* ToNumber of a string: blank is 0, an optionally signed run of digits is its
\* value, anything else is NaN (the model's strings hold no other numerals)
StringToNumber(s) == TrimmedToNumber(Trim(s))

\* ToNumber
ToNumber(v) ==
    CASE v.type \in {"number", "Infinity", "-Infinity"} -> v
      [] v.type = "null" -> Num(0)
      [] v.type = "boolean" -> Num(IF v.val THEN 1 ELSE 0)
      [] v.type = "string" -> StringToNumber(v.val)
      [] OTHER -> NaN

\* isNaN(v)
isNaN(v) == ToNumber(v) = NaN

\* v > 0
GreaterThanZero(v) ==
    LET n == ToNumber(v) IN n = Infinity \/ (n.type = "number" /\ n.val > 0)

\* parseFloat(v): the numeral that starts the text of v, NaN when there is none
parseFloat(v) ==
    CASE v.type = "number" -> v
      [] v.type = "string" ->
            LET t == TrimStart(v.val)
                neg == t # <<>> /\ Head(t) = "-"
                body == IF t # <<>> /\ Head(t) \in {"-", "+"} THEN Tail(t) ELSE t
                d == DigitPrefix(body)
            IN  IF d = <<>> THEN NaN
                ELSE Num(IF neg THEN 0 - DigitsValue(d) ELSE DigitsValue(d))
      [] OTHER -> NaN

----------------------------------------------------------------------------
(* Dates.                                                                  *)

MsPerDay == 1000 * 60 * 60 * 24

\* days from 1970-01-01 to the civil date y-m-d (proleptic Gregorian calendar)
DaysFromCivil(y, m, d) ==
    LET yy == IF m <= 2 THEN y - 1 ELSE y
        era == yy \div 400
        yoe == yy - era * 400
        doy == (153 * (IF m > 2 THEN m - 3 ELSE m + 9) + 2) \div 5 + d - 1
        doe == yoe * 365 + yoe \div 4 - yoe \div 100 + doy
    IN  era * 146097 + doe - 719468

\* the civil date [y, m, d] of the day z days after 1970-01-01
CivilFromDays(z) ==
    LET zz == z + 719468
        era == zz \div 146097
        doe == zz - era * 146097
        yoe == (doe - doe \div 1460 + doe \div 36524 - doe \div 146096) \div 365
        doy == doe - (365 * yoe + yoe \div 4 - yoe \div 100)
        mp == (5 * doy + 2) \div 153
        d == doy - (153 * mp + 2) \div 5 + 1
        m == IF mp < 10 THEN mp + 3 ELSE mp - 9
    IN  [y |-> yoe + era * 400 + (IF m <= 2 THEN 1 ELSE 0), m |-> m, d |-> d]

IsLeapYear(y) == (y % 4 = 0 /\ y % 100 # 0) \/ y % 400 = 0
DaysInMonth(y, m) ==
    IF m = 2 THEN (IF IsLeapYear(y) THEN 29 ELSE 28)
    ELSE IF m \in {4, 6, 9, 11} THEN 30 ELSE 31

\* a Date object: an instant, or Invalid Date
DateAt(day, ms) == [type |-> "Date", day |-> day, ms |-> ms]
InvalidDate == [type |-> "InvalidDate"]

\* new Date(v) for a date-only text YYYY-MM-DD: midnight UTC of that day;
\* Invalid Date for any other value the model holds
NewDate(v) ==
    IF ~IsString(v) THEN InvalidDate
    ELSE LET s == v.val
             wellFormed ==
                 /\ Len(s) = 10
                 /\ \A i \in {1, 2, 3, 4, 6, 7, 9, 10} : IsDigit(s[i])
                 /\ s[5] = "-" /\ s[8] = "-"
             y == DigitsValue(SubSeq(s, 1, 4))
             m == DigitsValue(SubSeq(s, 6, 7))
             d == DigitsValue(SubSeq(s, 9, 10))
         IN  IF wellFormed /\ m \in 1..12 /\ d \in 1..DaysInMonth(y, m)
             THEN DateAt(DaysFromCivil(y, m, d), 0)
             ELSE InvalidDate

\* a <= b and a >= b on Date objects (their time values; false with Invalid Date)
DateLeq(a, b) ==
    /\ a.type = "Date" /\ b.type = "Date"
    /\ (a.day < b.day \/ (a.day = b.day /\ a.ms <= b.ms))
DateGeq(a, b) == DateLeq(b, a)

\* Date.prototype.toISOString: YYYY-MM-DDTHH:MM:SS.mmmZ
toISOString(t) ==
    LET c == CivilFromDays(t.day)
        h == t.ms \div 3600000
        mi == (t.ms % 3600000) \div 60000
        sec == (t.ms % 60000) \div 1000
    IN  PadDigits(c.y, 4) \o <<"-">> \o PadDigits(c.m, 2) \o <<"-">> \o PadDigits(c.d, 2)
        \o <<"T">> \o PadDigits(h, 2) \o <<":">> \o PadDigits(mi, 2) \o <<":">>
        \o PadDigits(sec, 2) \o <<".">> \o PadDigits(t.ms % 1000, 3) \o <<"Z">>

\* s.split(c)[0]: the text before the first c
RECURSIVE SplitFirst(_, _)
SplitFirst(s, c) ==
    IF s = <<>> \/ Head(s) = c THEN <<>> ELSE <<Head(s)>> \o SplitFirst(Tail(s), c)

\* the text of date y-m-d
DateText(y, m, d) == PadDigits(y, 4) \o <<"-">> \o PadDigits(m, 2) \o <<"-">> \o PadDigits(d, 2)

\* the day the model's clock starts on, and the number Date.now() reads there:
\* the milliseconds since the start of that day (the true reading less a constant)
EpochDay == DaysFromCivil(2025, 1, 1)
DateNow(t) == (t.day - EpochDay) * MsPerDay + t.ms

----------------------------------------------------------------------------
(* Utils (helpers.js).                                                     *)

getTodayString(t) == Str(SplitFirst(toISOString(t), "T"))

\* daysBetween without its + 1
daysBetween_exclusive(startDate, endDate) ==
    (endDate.day - startDate.day) + (IF endDate.ms - startDate.ms > 0 THEN 1 ELSE 0)

\* Math.ceil((endDate - startDate) / (1000 * 60 * 60 * 24)) + 1; the difference is
\* (whole days) * MsPerDay + (ms difference), so its quotient by MsPerDay is the
\* whole days plus the ceiling of the ms difference over MsPerDay, and that
\* ms difference lies strictly between -MsPerDay and MsPerDay
daysBetween(startDate, endDate) ==
    LET dms == endDate.ms - startDate.ms
        ceilPart == IF dms > 0 THEN 1 ELSE 0
    IN  (endDate.day - startDate.day) + ceilPart + 1

generateId(t) == Num(DateNow(t))

\* div.textContent = str; return div.innerHTML
RECURSIVE sanitizeHtml(_)
sanitizeHtml(str) ==
    IF str = <<>> THEN <<>>
    ELSE (CASE Head(str) = "&" -> <<"&", "a", "m", "p", ";">>
            [] Head(str) = "<" -> <<"&", "l", "t", ";">>
            [] Head(str) = ">" -> <<"&", "g", "t", ";">>
            [] OTHER -> <<Head(str)>>) \o sanitizeHtml(Tail(str))

\* expense.description.trim is not a function: the description is truthy and no string
validateExpenseThrows(expense) ==
    /\ Truthy(expense)
    /\ Truthy(Get(expense, "description"))
    /\ ~IsString(Get(expense, "description"))

\* validateExpense without its last test, expense.amount > 0
validateExpense_withoutPositiveTest(expense) ==
    /\ Truthy(expense)
    /\ Truthy(Get(expense, "description"))
    /\ Trim(Get(expense, "description").val) # <<>>
    /\ Truthy(Get(expense, "amount"))
    /\ ~isNaN(Get(expense, "amount"))

validateExpense(expense) ==
    /\ Truthy(expense)
    /\ Truthy(Get(expense, "description"))
    /\ Trim(Get(expense, "description").val) # <<>>
    /\ Truthy(Get(expense, "amount"))
    /\ ~isNaN(Get(expense, "amount"))
    /\ GreaterThanZero(Get(expense, "amount"))

----------------------------------------------------------------------------
(* CONFIG (the configuration file).  The texts are written without their   *)
(* diacritics; a message is held as one symbol.                            *)

Khac == <<"K", "h", "a", "c">>
InitialDefaultCategories ==
    << Str(<<"A", "n", " ", "U", "o", "n", "g">>),
       Str(<<"D", "i", " ", "C", "h", "u", "y", "e", "n">>),
       Str(<<"M", "u", "a", " ", "S", "a", "m">>),
       Str(<<"G", "i", "a", "i", " ", "T", "r", "i">>),
       Str(<<"H", "o", "a", " ", "D", "o", "n">>),
       Str(<<"S", "u", "c", " ", "K", "h", "o", "e">>),
       Str(Khac) >>

LOW_BUDGET_THRESHOLD == 50000
WARNING_DAYS_THRESHOLD == 7
VALIDATION_ERROR == "VALIDATION_ERROR"
IMPORT_ERROR == "IMPORT_ERROR"
NO_EXPENSES_DAY == "NO_EXPENSES_DAY"
NO_EXPENSES_CATEGORY == "NO_EXPENSES_CATEGORY"
ALL_CATEGORIES == Str(<<"T", "a", "t", " ", "c", "a">>)
BUDGET_EXCEEDED == <<"BUDGET_EXCEEDED">>
\* BUDGET_WARNING with its {days} replaced by days
BUDGET_WARNING(days) == <<"BUDGET_WARNING", days>>
TypeError == "TypeError"

----------------------------------------------------------------------------
(* ExpenseManager.  Each method is an operator on the state it reads; one  *)
(* that changes the repository yields the state it leaves and what it      *)
(* returns or throws.                                                      *)

\* Array.prototype.filter is SelectSeq: the elements that satisfy the test,
\* in order.
Includes(list, v) == \E i \in 1..Len(list) : list[i] = v

getExpenses == expenses
getCategories == categories

\* list.filter(expense => expense.date === dateStr)
OnDate(list, dateStr) ==
    LET IsOnDate(expense) == Get(expense, "date") = dateStr
    IN  SelectSeq(list, IsOnDate)

getExpensesByDate(dateStr) == OnDate(expenses, dateStr)

\* this._expenses.find(expense => expense.id === id) || null
getExpenseById(id) ==
    LET WithId(expense) == Get(expense, "id") = id
        found == SelectSeq(expenses, WithId)
    IN  IF found = <<>> THEN Null ELSE OrElse(Head(found), Null)

\* the category list after addCategory(category), for a string category
addCategory(list, category) ==
    LET trimmedCategory == Str(Trim(category.val))
    IN  IF Truthy(trimmedCategory) /\ ~Includes(list, trimmedCategory)
        THEN Append(list, trimmedCategory)
        ELSE list

\* what a call leaves: the expense list, the category list, and its outcome
Outcome(es, cs, result) == [expenses |-> es, categories |-> cs, result |-> result]

\* addExpense from its unshift of the new record on
Unshifted(expense) ==
    \* category.trim is not a function: thrown after the unshift
    IF ~IsString(Get(expense, "category"))
    THEN Outcome(<<expense>> \o expenses, categories, Thrown(TypeError))
    ELSE Outcome(<<expense>> \o expenses,
                 addCategory(categories, Get(expense, "category")), expense)

addExpense(expenseData) ==
    IF validateExpenseThrows(expenseData) THEN Outcome(expenses, categories, Thrown(TypeError))
    ELSE IF ~validateExpense(expenseData)
    THEN Outcome(expenses, categories, Thrown(VALIDATION_ERROR))
    ELSE Unshifted(Obj([ id |-> generateId(clock),
                         description |-> Str(sanitizeHtml(Trim(Get(expenseData, "description").val))),
                         amount |-> parseFloat(Get(expenseData, "amount")),
                         category |-> OrElse(Get(expenseData, "category"), Str(Khac)),
                         date |-> OrElse(Get(expenseData, "date"), getTodayString(clock)),
                         timestamp |-> Str(toISOString(clock)) ]))

deleteExpense(id) ==
    LET Others(expense) == Get(expense, "id") # id
        kept == SelectSeq(expenses, Others)
    IN  Outcome(kept, categories, Bool(Len(kept) < Len(expenses)))

\* this._expenses.findIndex(expense => expense.id === id), 0 when there is none
findIndex(id) ==
    IF \E i \in 1..Len(expenses) : Get(expenses[i], "id") = id
    THEN CHOOSE i \in 1..Len(expenses) :
            /\ Get(expenses[i], "id") = id
            /\ \A j \in 1..(i - 1) : Get(expenses[j], "id") # id
    ELSE 0

\* the update leaves the timestamp alone and takes the id it is given
Preserved_timestampOnly(expense) == [timestamp |-> Get(expense, "timestamp")]

\* the properties updateExpense writes last, over those of updateData
Preserved(expense) == [id |-> Get(expense, "id"), timestamp |-> Get(expense, "timestamp")]

updateExpense(id, updateData) ==
    LET index == findIndex(id)
    IN  IF index = 0 THEN Outcome(expenses, categories, Null)
        ELSE
            LET expense == expenses[index]
                updatedExpense ==
                    Obj(Spread(Spread(expense.val, updateData.val), Preserved(expense)))
            IN  IF validateExpenseThrows(updatedExpense)
                THEN Outcome(expenses, categories, Thrown(TypeError))
                ELSE IF ~validateExpense(updatedExpense)
                THEN Outcome(expenses, categories, Thrown(VALIDATION_ERROR))
                ELSE Outcome([expenses EXCEPT ![index] = updatedExpense], categories,
                             updatedExpense)

----------------------------------------------------------------------------
(* Arithmetic on JavaScript numbers.  A number that is no integer is held  *)
(* as a fraction in lowest terms, [type |-> "number", num, den].           *)

RECURSIVE Gcd(_, _)
Gcd(a, b) == IF b = 0 THEN a ELSE Gcd(b, a % b)
Abs(n) == IF n < 0 THEN 0 - n ELSE n

\* n / d for integers n and d > 0
Quotient(n, d) ==
    LET g == Gcd(Abs(n), d)
    IN  IF g = d THEN Num(n \div d)
        ELSE [type |-> "number", num |-> n \div g, den |-> d \div g]

IsNumber(v) == v.type = "number"
Numerator(v) == IF "val" \in DOMAIN v THEN v.val ELSE v.num
Denominator(v) == IF "val" \in DOMAIN v THEN 1 ELSE v.den

\* a < b on numbers, infinite ones too; false when either is NaN
Less(a, b) ==
    \/ /\ IsNumber(a) /\ IsNumber(b)
       /\ Numerator(a) * Denominator(b) < Numerator(b) * Denominator(a)
    \/ a = MinusInfinity /\ (IsNumber(b) \/ b = Infinity)
    \/ IsNumber(a) /\ b = Infinity

\* the text of an integer
NumberText(n) == IF n < 0 THEN <<"-">> \o PadDigits(0 - n, 1) ELSE PadDigits(n, 1)

\* ToString, for the values the model adds to a string
ToText(v) ==
    CASE v.type = "string" -> v.val
      [] v.type = "number" -> NumberText(v.val)
      [] v.type = "NaN" -> <<"N", "a", "N">>
      [] v.type = "null" -> <<"n", "u", "l", "l">>
      [] v.type = "boolean" -> IF v.val THEN <<"t", "r", "u", "e">> ELSE <<"f", "a", "l", "s", "e">>
      [] OTHER -> <<"u", "n", "d", "e", "f", "i", "n", "e", "d">>

\* x + y on numbers, NaN and the infinities
SumOfNumbers(x, y) ==
    IF IsNumber(x) /\ IsNumber(y) THEN Num(x.val + y.val)
    ELSE IF x = NaN \/ y = NaN THEN NaN
    ELSE IF IsNumber(x) THEN y
    ELSE IF IsNumber(y) \/ x = y THEN x
    ELSE NaN

\* a + b: concatenation when either is a string, else the sum of the numbers
Plus(a, b) ==
    IF IsString(a) \/ IsString(b) THEN Str(ToText(a) \o ToText(b))
    ELSE SumOfNumbers(ToNumber(a), ToNumber(b))

\* x - y on numbers, NaN and the infinities
DifferenceOfNumbers(x, y) ==
    IF IsNumber(x) /\ IsNumber(y) THEN Num(x.val - y.val)
    ELSE IF x = NaN \/ y = NaN \/ x = y THEN NaN
    ELSE IF y = Infinity THEN MinusInfinity
    ELSE IF y = MinusInfinity THEN Infinity
    ELSE x

\* a - b
Minus(a, b) == DifferenceOfNumbers(ToNumber(a), ToNumber(b))

\* Math.max(0, v)
MaxZero(v) ==
    IF v = NaN THEN NaN
    ELSE IF v = Infinity THEN Infinity
    ELSE IF v = MinusInfinity THEN Num(0)
    ELSE IF Numerator(v) < 0 THEN Num(0) ELSE v

----------------------------------------------------------------------------
(* ExpenseManager's queries used by the statistics, and StatisticsModule.  *)

\* getExpensesByDateRange over a repository that holds list
ExpensesByDateRange(list, startDate, endDate) ==
    LET InRange(expense) ==
            LET expenseDate == NewDate(Get(expense, "date"))
            IN  DateGeq(expenseDate, startDate) /\ DateLeq(expenseDate, endDate)
    IN  IF startDate = Null \/ endDate = Null THEN <<>> ELSE SelectSeq(list, InRange)

getExpensesByDateRange(startDate, endDate) ==
    ExpensesByDateRange(expenses, startDate, endDate)

\* expensesToSum.reduce((total, expense) => total + expense.amount, 0)
RECURSIVE Reduce(_, _)
Reduce(total, list) ==
    IF list = <<>> THEN total
    ELSE Reduce(Plus(total, Get(Head(list), "amount")), Tail(list))

getTotalSpent(list) == Reduce(Num(0), list)

\* the settings object StatisticsModule.init and updateSettings build
MakeSettings(given) ==
    [ totalBudget |-> OrElse(parseFloat(Get(given, "totalBudget")), Num(0)),
      startDate |-> IF Truthy(Get(given, "startDate"))
                    THEN NewDate(Get(given, "startDate")) ELSE Null,
      endDate |-> IF Truthy(Get(given, "endDate"))
                  THEN NewDate(Get(given, "endDate")) ELSE Null ]

_getEmptyStats ==
    [ totalBudget |-> Num(0), totalSpent |-> Num(0), remaining |-> Num(0),
      dailyBudget |-> Num(0), daysRemaining |-> Num(0), expenseCount |-> Num(0),
      averageDaily |-> Num(0), isOverBudget |-> Bool(FALSE), isLowBudget |-> Bool(FALSE) ]

\* the first test of _calculateStatistics with > in place of >=
StartNotBeforeEnd_strict(startDate, endDate) ==
    DateGeq(startDate, endDate) /\ startDate # endDate

\* startDate >= endDate of _calculateStatistics' first test
StartNotBeforeEnd(startDate, endDate) == DateGeq(startDate, endDate)

\* t / days on a number, NaN or an infinity t, for days > 0
QuotientOfNumber(t, days) ==
    IF IsNumber(t) THEN Quotient(t.val, days)
    ELSE IF t \in {Infinity, MinusInfinity} THEN t ELSE NaN

\* total / days for days > 0; NaN when the total is no number
Over(total, days) == QuotientOfNumber(ToNumber(total), days)

\* _calculateAverageDaily with the module's settings st
AverageDaily(list, st) ==
    IF list = <<>> \/ st.startDate = Null THEN Num(0)
    ELSE IF st.startDate.type # "Date" THEN Num(0)
    ELSE LET daysPassed == daysBetween(st.startDate, clock)
         IN  IF daysPassed > 0 THEN Over(getTotalSpent(list), daysPassed) ELSE Num(0)

_calculateAverageDaily(list) == AverageDaily(list, settings)

\* _calculateStatistics with the module's settings st, over a repository that
\* holds list
Statistics(list, st) ==
    IF \/ st.startDate = Null
       \/ st.endDate = Null
       \/ StartNotBeforeEnd(st.startDate, st.endDate)
    THEN _getEmptyStats
    ELSE
        LET expensesInRange == ExpensesByDateRange(list, st.startDate, st.endDate)
            totalSpent == getTotalSpent(expensesInRange)
            remaining == Minus(st.totalBudget, totalSpent)
            \* an Invalid Date end gives NaN days, and NaN > 0 is false
            daysRemaining ==
                IF st.endDate.type = "Date"
                THEN Num(daysBetween(clock, st.endDate)) ELSE NaN
            dailyBudget ==
                IF Less(Num(0), daysRemaining) THEN Over(remaining, daysRemaining.val)
                ELSE Num(0)
        IN  [ totalBudget |-> st.totalBudget,
              totalSpent |-> totalSpent,
              remaining |-> remaining,
              dailyBudget |-> MaxZero(dailyBudget),
              daysRemaining |-> daysRemaining,
              expenseCount |-> Num(Len(expensesInRange)),
              averageDaily |-> AverageDaily(expensesInRange, st),
              isOverBudget |-> Bool(Less(remaining, Num(0))),
              isLowBudget |-> Bool(Less(dailyBudget, Num(LOW_BUDGET_THRESHOLD))
                                   /\ Less(Num(0), dailyBudget)) ]

_calculateStatistics == Statistics(expenses, settings)

getCurrentStats == _calculateStatistics

\* the list holds null or undefined, so that reading a property of each of
\* its elements throws a TypeError
HasNullish(list) == \E i \in 1..Len(list) : list[i] \in {Null, Undefined}

\* StatisticsModule.updateDisplay throws over a repository that holds list, with
\* settings st: getExpensesByDateRange reads the date of every element
updateDisplayThrows(list, st) ==
    /\ st.startDate # Null /\ st.endDate # Null
    /\ ~StartNotBeforeEnd(st.startDate, st.endDate)
    /\ HasNullish(list)

\* a <= b on numbers, infinite ones too; false when either is NaN
LessEq(a, b) ==
    \/ Less(a, b)
    \/ a = b /\ (IsNumber(a) \/ a \in {Infinity, MinusInfinity})

\* the banner after _updateWarnings(stats): addClass('hidden') leaves its text
_updateWarnings(stats) ==
    IF LessEq(stats.daysRemaining, Num(0))
    THEN [hidden |-> FALSE, html |-> BUDGET_EXCEEDED]
    ELSE IF LessEq(stats.daysRemaining, Num(WARNING_DAYS_THRESHOLD))
    THEN [hidden |-> FALSE, html |-> BUDGET_WARNING(stats.daysRemaining.val)]
    ELSE [warning EXCEPT !.hidden = TRUE]

\* $('.stat-remaining') finds the card: it carries the class stat-remaining
Selected(classes) == "stat-remaining" \in classes

\* the classes of the card after _updateRemainingCardColor(stats)
_updateRemainingCardColor(stats) ==
    IF ~Selected(remainingCard) THEN remainingCard
    ELSE (remainingCard \ {"stat-remaining", "bg-red-500", "bg-orange-500"})
            \cup { IF stats.isOverBudget.val THEN "bg-red-500"
                   ELSE IF stats.isLowBudget.val THEN "bg-orange-500"
                   ELSE "stat-remaining" }

\* the banner and the card after updateDisplay's calls with stats
Updated(stats) ==
    /\ warning' = _updateWarnings(stats)
    /\ remainingCard' = _updateRemainingCardColor(stats)

\* StatisticsModule.updateDisplay() with the module's settings st, over a
\* repository that holds list: the statistics are calculated once, and the
\* banner and the card set from them
updateDisplay(list, st) ==
    \E held \in {list}, given \in {st} :
        \E stats \in {Statistics(held, given)} : Updated(stats)

----------------------------------------------------------------------------
(* The state after the scripts have loaded, before any call.               *)

NoItem == [type |-> "noitem"]
NoCall == [op |-> "none"]

\* an object with the given properties, those given as undefined left out
Object(fields) == Obj([k \in {j \in DOMAIN fields : fields[j] # Undefined} |-> fields[k]])

\* the first instant of the model's runs: 2025-01-05T00:00:00.000Z
StartClock == [day |-> DaysFromCivil(2025, 1, 5), ms |-> 0]

ModalClosed ==
    [ currentDate |-> Str(<<>>), currentCategory |-> ALL_CATEGORIES, expenses |-> <<>>,
      isVisible |-> FALSE, filters |-> <<>>, list |-> [kind |-> "none"] ]

\* the page's scripts have just run: no handler is bound, no timer or file read
\* is pending, and the calendar holds the instant its script ran
PageLoaded ==
    /\ handlers = 0
    /\ _currentDate = DateAt(clock.day, clock.ms)
    /\ timeout = Undefined
    /\ timers = {}
    /\ reader = <<>>
    \* the card is the element of class stat-remaining; the banner shows nothing
    /\ remainingCard = {"stat-remaining"}
    /\ warning = [hidden |-> TRUE, html |-> <<>>]

Loaded ==
    /\ DEFAULT_CATEGORIES = InitialDefaultCategories
    /\ expenses = <<>>
    /\ categories = InitialDefaultCategories
    /\ categoriesShared = FALSE
    /\ settings = [totalBudget |-> Num(0), startDate |-> Null, endDate |-> Null]
    /\ calendarExpenses = <<>>
    /\ modal = ModalClosed
    /\ form = [totalBudget |-> Str(<<>>), startDate |-> Str(<<>>), endDate |-> Str(<<>>)]
    /\ isInitialized = FALSE
    /\ last = NoCall

\* a call's record: its name, arguments and outcome, and the repository before it
Call(op, args, result) ==
    [ op |-> op, args |-> args, result |-> result,
      pre |-> [expenses |-> expenses, categories |-> categories] ]

\* the caller has taken the outcome of its call; the program is as the call left it
Returned ==
    /\ last # NoCall
    /\ last' = NoCall
    /\ UNCHANGED <<view, clock, DEFAULT_CATEGORIES, expenses, categories, categoriesShared,
                   settings, calendarExpenses, modal, storage, form, isInitialized, page>>

\* the clock moves on by a millisecond
Tick ==
    /\ last = NoCall
    /\ DateNow(clock) - DateNow(StartClock) < MaxTicks
    /\ clock' = [clock EXCEPT !.ms = @ + 1]
    /\ UNCHANGED <<view, DEFAULT_CATEGORIES, expenses, categories, categoriesShared, settings,
                   calendarExpenses, modal, storage, form, isInitialized, last, page>>

----------------------------------------------------------------------------
(* The repository driven directly through ExpenseManager's methods.        *)

D0105 == Str(DateText(2025, 1, 5))
D0106 == Str(DateText(2025, 1, 6))

\* valid inputs: plain; padded and with markup characters; a numeral given as text
\* with a padded category
ValidExpenseInputs ==
    { Object([description |-> Str(<<"a">>), amount |-> Num(100),
              category |-> Undefined, date |-> Undefined]),
      Object([description |-> Str(<<" ", "a", "&">>), amount |-> Num(250),
              category |-> Str(<<"x">>), date |-> D0106]),
      Object([description |-> Str(<<"b">>), amount |-> Str(<<"7">>),
              category |-> Str(<<" ", "x">>), date |-> D0105]) }

BadDescriptions == {Undefined, Str(<<>>), Str(<<" ">>), Str(<<" ", " ">>)}
BadAmounts ==
    { Undefined, Null, NaN, Num(0), Num(0 - 5), Str(<<>>), Str(<<"x">>),
      Str(<<"0">>), Str(<<"-", "3">>), Str(<<"7", "x">>) }

InvalidExpenseInputs ==
    { Object([description |-> d, amount |-> Num(100), category |-> Str(<<"y">>),
              date |-> Undefined]) : d \in BadDescriptions }
    \cup { Object([description |-> Str(<<"a">>), amount |-> a, category |-> Str(<<"y">>),
                   date |-> Undefined]) : a \in BadAmounts }
    \cup { Object([description |-> Str(<<" ">>), amount |-> Num(0), category |-> Undefined,
                   date |-> Undefined]) }

ExpenseInputs == ValidExpenseInputs \cup InvalidExpenseInputs

\* the ids the clock can hand out, and one it never does
IdInputs == {Num(DateNow(StartClock) + k) : k \in 0..MaxTicks} \cup {Num(1)}

UpdateInputs ==
    { Object([amount |-> Num(250)]),
      Object([description |-> Str(<<" ">>)]),
      Object([amount |-> Num(0 - 5), category |-> Str(<<"z">>)]),
      Object([id |-> Num(1), timestamp |-> Str(<<>>), category |-> Str(<<"z">>)]) }

RepoUnchanged ==
    UNCHANGED <<view, clock, DEFAULT_CATEGORIES, categoriesShared, settings, calendarExpenses,
                modal, storage, form, isInitialized, page>>

Repo_addExpense(expenseData) ==
    \E out \in {addExpense(expenseData)} :
        /\ last = NoCall
        /\ Len(out.expenses) <= MaxExpenses
        /\ expenses' = out.expenses
        /\ categories' = out.categories
        /\ last' = Call("addExpense", <<expenseData>>, out.result)
        /\ RepoUnchanged

Repo_deleteExpense(id) ==
    LET out == deleteExpense(id)
    IN  /\ last = NoCall
        /\ expenses' = out.expenses
        /\ categories' = out.categories
        /\ last' = Call("deleteExpense", <<id>>, out.result)
        /\ RepoUnchanged

Repo_updateExpense(id, updateData) ==
    LET out == updateExpense(id, updateData)
    IN  /\ last = NoCall
        /\ expenses' = out.expenses
        /\ categories' = out.categories
        /\ last' = Call("updateExpense", <<id, updateData>>, out.result)
        /\ RepoUnchanged

RepoInit ==
    /\ Loaded
    /\ clock = StartClock
    /\ storage = NoItem
    /\ PageLoaded

RepoNext ==
    \/ Tick
    \/ Returned
    \/ \E expenseData \in ExpenseInputs : Repo_addExpense(expenseData)
    \/ \E id \in IdInputs : Repo_deleteExpense(id)
    \/ \E id \in IdInputs, updateData \in UpdateInputs : Repo_updateExpense(id, updateData)

SpecRepo == RepoInit /\ [][RepoNext]_vars

----------------------------------------------------------------------------
(* The statistics engine over repositories, settings and instants drawn    *)
(* from bounded sets.                                                      *)

\* a record as addExpense leaves it, added at instant t
Record(t, description, amount, category, date) ==
    Obj([ id |-> generateId(t), description |-> Str(description), amount |-> Num(amount),
          category |-> Str(category), date |-> date, timestamp |-> Str(toISOString(t)) ])

At(y, m, d, ms) == [day |-> DaysFromCivil(y, m, d), ms |-> ms]
D0101 == Str(DateText(2025, 1, 1))
D0111 == Str(DateText(2025, 1, 11))
D0112 == Str(DateText(2025, 1, 12))

Spent0105 == Record(At(2025, 1, 5, 7), <<"a">>, 100000, Khac, D0105)
Spent0111 == Record(At(2025, 1, 5, 8), <<"b">>, 880000, <<"x">>, D0111)
Spent0101 == Record(At(2025, 1, 5, 9), <<"c">>, 30000, <<"x">>, D0101)
Spent0112 == Record(At(2025, 1, 5, 9), <<"d">>, 500, Khac, D0112)

StatsRepositories ==
    { <<>>, <<Spent0105>>, <<Spent0112, Spent0105>>, <<Spent0111, Spent0105>>,
      <<Spent0101, Spent0111, Spent0105>> }

StatsClocks ==
    { At(2025, 1, d, ms) : d \in {5, 11, 12, 13}, ms \in {0, 1, MsPerDay - 1} }

\* what the budget form can hold: texts of a number and of dates, blank or not
SettingsInputs ==
    { Object([totalBudget |-> b, startDate |-> sd, endDate |-> ed]) :
        b \in {Str(<<"x">>), Str(<<"1", "0", "0", "0", "0", "0", "0">>)},
        sd \in {Str(<<>>), D0101, D0105, D0111, Str(<<"x">>)},
        ed \in {Str(<<>>), D0101, D0105, D0111, Str(<<"x">>)} }

StatsUnchanged ==
    UNCHANGED <<clock, DEFAULT_CATEGORIES, expenses, categories, categoriesShared,
                calendarExpenses, modal, storage, form, isInitialized, page>>

Stats_updateSettings(given) ==
    /\ last = NoCall
    /\ settings' = MakeSettings(given)
    /\ UNCHANGED last
    /\ StatsUnchanged
    /\ IF updateDisplayThrows(expenses, MakeSettings(given)) THEN UNCHANGED view
       ELSE updateDisplay(expenses', settings')

Stats_getCurrentStats ==
    /\ last = NoCall
    /\ last' = Call("getCurrentStats", <<>>, getCurrentStats)
    /\ UNCHANGED <<settings, view>>
    /\ StatsUnchanged

StatsInit ==
    /\ DEFAULT_CATEGORIES = InitialDefaultCategories
    /\ expenses \in StatsRepositories
    /\ categories = InitialDefaultCategories \o <<Str(<<"x">>)>>
    /\ categoriesShared = FALSE
    /\ settings = [totalBudget |-> Num(0), startDate |-> Null, endDate |-> Null]
    /\ calendarExpenses = <<>>
    /\ modal = ModalClosed
    /\ form = [totalBudget |-> Str(<<>>), startDate |-> Str(<<>>), endDate |-> Str(<<>>)]
    /\ isInitialized = FALSE
    /\ last = NoCall
    /\ storage = NoItem
    /\ clock \in StatsClocks
    /\ PageLoaded

StatsNext ==
    \/ Returned
    \/ \E given \in SettingsInputs : Stats_updateSettings(given)
    \/ Stats_getCurrentStats

SpecStats == StatsInit /\ [][StatsNext]_vars

----------------------------------------------------------------------------
(* Properties of the repository.                                           *)

IsBlank(text) == \A i \in 1..Len(text) : text[i] = " "

\* the description is empty or whitespace-only
BlankDescription(expenseData) ==
    LET d == Get(expenseData, "description") IN IsString(d) /\ IsBlank(d.val)

\* the amount is missing, non-numeric, zero or negative
BadAmount(expenseData) ==
    LET a == Get(expenseData, "amount")
    IN  \/ a \in {Undefined, Null, NaN}
        \/ a.type = "number" /\ a.val <= 0
        \/ /\ IsString(a)
           /\ \/ IsBlank(a.val)
              \/ StringToNumber(a.val) = NaN
              \/ StringToNumber(a.val).val <= 0

\* C1: addExpense called with a description that is empty or whitespace-only, or
\* with an amount that is missing, non-numeric, zero or negative, throws the
\* validation error and leaves the expense list and the category list as they were.
C1_InvalidAddRejected ==
    (last.op = "addExpense" /\ (BlankDescription(last.args[1]) \/ BadAmount(last.args[1])))
        => /\ last.result = Thrown(VALIDATION_ERROR)
           /\ expenses = last.pre.expenses
           /\ categories = last.pre.categories

\* a negative amount with a good description was rejected by a repository that holds records
C1_Witness ==
    /\ last.op = "addExpense"
    /\ Get(last.args[1], "amount") = Num(0 - 5)
    /\ ~BlankDescription(last.args[1])
    /\ last.result = Thrown(VALIDATION_ERROR)
    /\ expenses # <<>>

\* the input is valid: a non-blank description and a number above zero
ValidInput(expenseData) ==
    /\ IsString(Get(expenseData, "description"))
    /\ ~BlankDescription(expenseData)
    /\ Get(expenseData, "amount").type = "number"
    /\ Get(expenseData, "amount").val > 0

HoldsId(list, id) == \E i \in 1..Len(list) : Get(list[i], "id") = id

\* C2: for every valid input, addExpense followed by getExpenseById on the returned
\* id yields a record whose description, amount, category and date are the ones
\* supplied, and whose id no record held before the add.
C2_AddThenGetById ==
    (last.op = "addExpense" /\ ValidInput(last.args[1]))
        => /\ IsObject(last.result)
           /\ LET supplied == last.args[1]
                  got == getExpenseById(Get(last.result, "id"))
              IN  /\ IsObject(got)
                  /\ \A k \in DOMAIN supplied.val : Get(got, k) = supplied.val[k]
                  /\ ~HoldsId(last.pre.expenses, Get(last.result, "id"))

\* C3: after any sequence of addExpense, updateExpense and deleteExpense calls from
\* an empty repository, the ids of the records are pairwise distinct, also when
\* several adds read the same millisecond.
C3_IdsDistinct ==
    \A i, j \in 1..Len(expenses) :
        i # j => Get(expenses[i], "id") # Get(expenses[j], "id")

\* list without its element at index i
RemoveAt(list, i) == SubSeq(list, 1, i - 1) \o SubSeq(list, i + 1, Len(list))

\* C4: deleteExpense(id) with an id some record holds removes exactly one record, the
\* one with that id, keeps the others in order and returns true; with an id no
\* record holds it returns false and leaves the list as it was; the category list
\* is unchanged either way.
C4_DeleteExactlyOne ==
    (last.op = "deleteExpense")
        => /\ categories = last.pre.categories
           /\ IF HoldsId(last.pre.expenses, last.args[1])
              THEN /\ last.result = Bool(TRUE)
                   /\ \E i \in 1..Len(last.pre.expenses) :
                        /\ Get(last.pre.expenses[i], "id") = last.args[1]
                        /\ expenses = RemoveAt(last.pre.expenses, i)
              ELSE /\ last.result = Bool(FALSE)
                   /\ expenses = last.pre.expenses

----------------------------------------------------------------------------
(* Properties of the statistics.                                           *)

IsDate(v) == v.type = "Date"

\* the settings are degenerate: a date is absent, or the start is not before the end
Degenerate ==
    \/ settings.startDate = Null
    \/ settings.endDate = Null
    \/ /\ IsDate(settings.startDate) /\ IsDate(settings.endDate)
       /\ settings.startDate.day >= settings.endDate.day

\* C7: when the start date or the end date is absent, or start >= end,
\* getCurrentStats returns the neutral result whatever the repository and the
\* budget hold: every number 0 and both flags false.
C7_DegenerateIsNeutral ==
    (last.op = "getCurrentStats" /\ Degenerate)
        => /\ \A k \in {"totalBudget", "totalSpent", "remaining", "dailyBudget",
                        "daysRemaining", "expenseCount", "averageDaily"} :
                last.result[k] = Num(0)
           /\ last.result.isOverBudget = Bool(FALSE)
           /\ last.result.isLowBudget = Bool(FALSE)

\* statistics were asked for with start = end, a budget, and an expense on that day
C7_Witness ==
    /\ last.op = "getCurrentStats"
    /\ settings.startDate = NewDate(D0105)
    /\ settings.endDate = NewDate(D0105)
    /\ settings.totalBudget = Num(1000000)
    /\ \E i \in 1..Len(expenses) : expenses[i] = Spent0105
    /\ last.result.totalSpent = Num(0)

\* the sum of the amounts of the records dated from day `from` to day `to`
RECURSIVE SpentBetween(_, _, _)
SpentBetween(list, from, to) ==
    IF list = <<>> THEN 0
    ELSE LET on == NewDate(Get(Head(list), "date"))
         IN  (IF IsDate(on) /\ from <= on.day /\ on.day <= to
              THEN Get(Head(list), "amount").val ELSE 0)
             + SpentBetween(Tail(list), from, to)

\* the budget of 1,000,000 from 2025-01-01 to 2025-01-11 with one expense of
\* 100,000 on 2025-01-05, seen on 2025-01-05
Scenario ==
    /\ settings = [ totalBudget |-> Num(1000000), startDate |-> NewDate(D0101),
                    endDate |-> NewDate(D0111) ]
    /\ expenses = <<Spent0105>>
    /\ clock.day = DaysFromCivil(2025, 1, 5)

\* C8: for start < end, totalSpent is the sum of the amounts dated from start to
\* end inclusive, remaining is the budget less that, daysRemaining is the inclusive
\* count of days from today to the end date, and dailyBudget is remaining /
\* daysRemaining when daysRemaining > 0 and remaining >= 0, and 0 otherwise; the
\* scenario gives 100,000 spent, 900,000 remaining, 7 days and 900,000 / 7.
C8_StatisticsValues ==
    (/\ last.op = "getCurrentStats"
     /\ IsDate(settings.startDate) /\ IsDate(settings.endDate)
     /\ settings.startDate.day < settings.endDate.day)
        => LET r == last.result
               spent == SpentBetween(expenses, settings.startDate.day, settings.endDate.day)
               left == settings.totalBudget.val - spent
               days == settings.endDate.day - clock.day + 1
           IN  /\ r.totalSpent = Num(spent)
               /\ r.remaining = Num(left)
               /\ r.daysRemaining = Num(days)
               /\ IF days > 0 /\ left >= 0
                  THEN Numerator(r.dailyBudget) * days = left * Denominator(r.dailyBudget)
                  ELSE r.dailyBudget = Num(0)
               /\ Scenario =>
                    /\ r.totalSpent = Num(100000)
                    /\ r.remaining = Num(900000)
                    /\ r.daysRemaining = Num(7)
                    /\ r.dailyBudget = [type |-> "number", num |-> 900000, den |-> 7]

\* the statistics of the scenario were asked for late on 2025-01-05
C8_Witness ==
    /\ last.op = "getCurrentStats"
    /\ Scenario
    /\ clock.ms = MsPerDay - 1
    /\ last.result.daysRemaining = Num(7)

----------------------------------------------------------------------------
(* JSON.  A JSON text is held as the sequence of its tokens: the           *)
(* punctuation, the literals null, true and false, number literals (a      *)
(* coefficient and a decimal exponent), string literals, property names,   *)
(* and white space.                                                        *)


Tok(t) == [tok |-> t]
NumberTok(n, e) == [tok |-> "number", val |-> n, exp |-> e]
StringTok(s) == [tok |-> "string", val |-> s]
NameTok(k) == [tok |-> "name", val |-> k]
Space == Tok(" ")
Text(tokens) == [type |-> "text", val |-> tokens]

\* the order in which the object literals of the program name their properties
KeyOrder ==
    << "id", "description", "amount", "category", "date", "timestamp",
       "expenses", "categories", "settings", "totalBudget", "startDate", "endDate",
       "lastUpdated", "exportDate", "version" >>

\* the value of a number literal; one beyond the largest double is Infinity
NumberValue(t) ==
    IF t.exp = 0 \/ t.val = 0 THEN Num(t.val)
    ELSE IF t.exp > 308 THEN (IF t.val > 0 THEN Infinity ELSE MinusInfinity)
    ELSE Num(t.val * 10 ^ t.exp)

ParseFailed == [ok |-> FALSE]
Parsed(value, rest) == [ok |-> TRUE, value |-> value, rest |-> rest]

RECURSIVE ParseValue(_)
RECURSIVE ParseElements(_, _)
RECURSIVE ParseMembers(_, _)

\* the value at the front of the tokens, and the tokens after it
ParseValue(ts) ==
    IF ts = <<>> THEN ParseFailed
    ELSE
        LET t == Head(ts)
            rest == Tail(ts)
        IN  CASE t.tok = "null" -> Parsed(Null, rest)
              [] t.tok = "true" -> Parsed(Bool(TRUE), rest)
              [] t.tok = "false" -> Parsed(Bool(FALSE), rest)
              [] t.tok = "number" -> Parsed(NumberValue(t), rest)
              [] t.tok = "string" -> Parsed(Str(t.val), rest)
              [] t.tok = "[" ->
                    IF rest # <<>> /\ Head(rest).tok = "]"
                    THEN Parsed(Arr(<<>>), Tail(rest))
                    ELSE ParseElements(rest, <<>>)
              [] t.tok = "{" ->
                    IF rest # <<>> /\ Head(rest).tok = "}"
                    THEN Parsed(Obj(<<>>), Tail(rest))
                    ELSE ParseMembers(rest, <<>>)
              [] OTHER -> ParseFailed

ParseElements(ts, acc) ==
    LET v == ParseValue(ts)
    IN  IF ~v.ok \/ v.rest = <<>> THEN ParseFailed
        ELSE CASE Head(v.rest).tok = "," -> ParseElements(Tail(v.rest), Append(acc, v.value))
               [] Head(v.rest).tok = "]" -> Parsed(Arr(Append(acc, v.value)), Tail(v.rest))
               [] OTHER -> ParseFailed

\* a property named again replaces the earlier one
ParseMembers(ts, acc) ==
    IF Len(ts) < 2 \/ ts[1].tok # "name" \/ ts[2].tok # ":" THEN ParseFailed
    ELSE
        LET v == ParseValue(Tail(Tail(ts)))
            members == (ts[1].val :> v.value) @@ acc
        IN  IF ~v.ok \/ v.rest = <<>> THEN ParseFailed
            ELSE CASE Head(v.rest).tok = "," -> ParseMembers(Tail(v.rest), members)
                   [] Head(v.rest).tok = "}" -> Parsed(Obj(members), Tail(v.rest))
                   [] OTHER -> ParseFailed

\* JSON.parse(text): the value, or [ok |-> FALSE] where it throws a SyntaxError
JSONparse(text) ==
    LET NotSpace(t) == t.tok # " "
        v == ParseValue(SelectSeq(text.val, NotSpace))
    IN  IF v.ok /\ v.rest = <<>> THEN v ELSE ParseFailed

RECURSIVE Flatten(_)
Flatten(seqs) == IF seqs = <<>> THEN <<>> ELSE Head(seqs) \o Flatten(Tail(seqs))

\* the parts, with a comma between each two
RECURSIVE Joined(_)
Joined(parts) ==
    IF Len(parts) <= 1 THEN Flatten(parts)
    ELSE Head(parts) \o <<Tok(",")>> \o Joined(Tail(parts))

\* JSON.stringify(v) for the values of a document (its numbers are integers):
\* undefined, NaN and the infinities inside an array become null, a property
\* whose value is undefined is left out
RECURSIVE Stringify(_)
Stringify(v) ==
    CASE v.type = "number" -> <<NumberTok(v.val, 0)>>
      [] v.type = "string" -> <<StringTok(v.val)>>
      [] v.type = "boolean" -> <<Tok(IF v.val THEN "true" ELSE "false")>>
      [] v.type = "array" ->
            <<Tok("[")>> \o Joined([i \in 1..Len(v.val) |-> Stringify(v.val[i])]) \o <<Tok("]")>>
      [] v.type = "object" ->
            LET Own(k) == k \in DOMAIN v.val /\ v.val[k] # Undefined
                keys == SelectSeq(KeyOrder, Own)
            IN  <<Tok("{")>>
                \o Joined([i \in 1..Len(keys) |->
                            <<NameTok(keys[i]), Tok(":")>> \o Stringify(v.val[keys[i]])])
                \o <<Tok("}")>>
      [] OTHER -> <<Tok("null")>>

\* JSON.stringify(v, null, 2): the same tokens, with white space after every
\* colon and comma and inside every bracket pair that is not empty
Indented(ts) ==
    LET Opens(t) == t.tok \in {"[", "{"}
        Closes(t) == t.tok \in {"]", "}"}
        Before(i) == IF Closes(ts[i]) /\ i > 1 /\ ~Opens(ts[i - 1]) THEN <<Space>> ELSE <<>>
        After(i) ==
            IF \/ ts[i].tok \in {":", ","}
               \/ Opens(ts[i]) /\ i < Len(ts) /\ ~Closes(ts[i + 1])
            THEN <<Space>> ELSE <<>>
    IN  Flatten([i \in 1..Len(ts) |-> Before(i) \o <<ts[i]>> \o After(i)])

----------------------------------------------------------------------------
(* StorageManager (storage.js).                                            *)

VERSION == <<"1", ".", "0", ".", "0">>
FallbackEndDate == Str(DateText(2025, 10, 6))
\* localStorage refuses access (storage disabled): getItem and setItem throw
Denied == [type |-> "denied"]
\* the stored item text, in a storage whose quota is used up: getItem gives
\* the text and setItem throws
QuotaExceeded(text) == [type |-> "text", val |-> text.val, full |-> TRUE]
\* localStorage.setItem throws
Refused == storage = Denied \/ "full" \in DOMAIN storage

\* the document saveData writes for data, as text
SavedText(data) ==
    LET dataToSave ==
            Obj([ expenses |-> OrElse(Get(data, "expenses"), Arr(<<>>)),
                  categories |-> OrElse(Get(data, "categories"), Arr(DEFAULT_CATEGORIES)),
                  settings |->
                    Obj([ totalBudget |-> OrElse(Get(Get(data, "settings"), "totalBudget"), Str(<<>>)),
                          startDate |-> OrElse(Get(Get(data, "settings"), "startDate"),
                                               getTodayString(clock)),
                          endDate |-> OrElse(Get(Get(data, "settings"), "endDate"),
                                             FallbackEndDate) ]),
                  lastUpdated |-> Str(toISOString(clock)) ])
    IN  Text(Stringify(dataToSave))

getDefaultData ==
    Obj([ expenses |-> Arr(<<>>),
          categories |-> Arr(DEFAULT_CATEGORIES),
          settings |-> Obj([ totalBudget |-> Str(<<>>),
                             startDate |-> getTodayString(clock),
                             endDate |-> FallbackEndDate ]) ])

\* the object loadData and importData return for the parsed document data
Ensured(data) ==
    Obj([ expenses |-> IF IsArray(Get(data, "expenses"))
                       THEN Get(data, "expenses") ELSE Arr(<<>>),
          categories |-> IF IsArray(Get(data, "categories"))
                         THEN Get(data, "categories") ELSE Arr(DEFAULT_CATEGORIES),
          settings |->
            Obj([ totalBudget |-> OrElse(Get(Get(data, "settings"), "totalBudget"),
                                         Str(<<>>)),
                  startDate |-> OrElse(Get(Get(data, "settings"), "startDate"),
                                       getTodayString(clock)),
                  endDate |-> OrElse(Get(Get(data, "settings"), "endDate"),
                                     FallbackEndDate) ]) ])

\* what loadData's try block makes of the outcome of JSON.parse
LoadedFrom(parsed) ==
    IF ~parsed.ok THEN Thrown("SyntaxError")
    ELSE IF parsed.value = Null THEN Thrown(TypeError)
    ELSE Ensured(parsed.value)

\* the body of loadData's try block: the document it returns, or what it throws
loadData_try ==
    IF storage = Denied THEN Thrown("SecurityError")
    ELSE IF storage = NoItem \/ storage.val = <<>> THEN getDefaultData
    ELSE LoadedFrom(JSONparse(storage))

\* loadData's catch clause over what its try block returned or threw
Caught(returned) == IF returned.type = "thrown" THEN getDefaultData ELSE returned

\* loadData with its catch clause left out
loadData_withoutCatch == loadData_try

loadData == Caught(loadData_try)

\* the text of the Blob exportData makes of data
exportData(data) ==
    Text(Indented(Stringify(
        Obj(Spread(data.val, [ exportDate |-> Str(toISOString(clock)),
                               version |-> Str(VERSION) ])))))

\* what importData makes of the outcome of JSON.parse
ImportedFrom(parsed) ==
    IF ~parsed.ok THEN Thrown(IMPORT_ERROR)
    ELSE IF ~Truthy(parsed.value) \/ ~(IsObject(parsed.value) \/ IsArray(parsed.value))
    THEN Thrown(IMPORT_ERROR)
    ELSE Ensured(parsed.value)

importData(jsonString) == ImportedFrom(JSONparse(jsonString))

----------------------------------------------------------------------------
(* The storage adapter over stored texts, documents and import texts drawn *)
(* from bounded sets.  A call may take what the call before it returned:   *)
(* exportData the document loadData gave, importData the text exportData   *)
(* gave.                                                                   *)

Doc(es, cs, st) == Obj([expenses |-> es, categories |-> cs, settings |-> st])
SomeSettings ==
    Obj([ totalBudget |-> Str(<<"1", "0", "0", "0", "0", "0", "0">>),
          startDate |-> D0101, endDate |-> D0111 ])
SomeCategories == Arr(<<Str(Khac), Str(<<"x">>)>>)
\* a record whose amount the repository took from the text "Infinity"
SpentInfinity ==
    Obj([ id |-> Num(3), description |-> Str(<<"e">>), amount |-> Infinity,
          category |-> Str(Khac), date |-> D0105, timestamp |-> Str(toISOString(StartClock)) ])

\* documents the program holds in memory
SampleDocuments ==
    { Doc(Arr(<<>>), Arr(InitialDefaultCategories), Obj(<<>>)),
      Doc(Arr(<<Spent0111, Spent0105>>), SomeCategories, SomeSettings),
      Doc(Arr(<<SpentInfinity>>), SomeCategories, SomeSettings),
      Obj(<<>>) }

\* { "expenses": es, "categories": cs } as text, a part left out when it is undefined
DocText(es, cs) == Text(Stringify(Object([expenses |-> es, categories |-> cs])))

\* what the stored item can hold: texts the program saved, and texts it did not
StoredTexts ==
    { NoItem, Denied, Text(<<>>), Text(<<Space>>), Text(<<Tok("{")>>),
      Text(<<Tok("null")>>), Text(<<NumberTok(5, 0)>>), Text(<<Tok("["), Tok("]")>>),
      Text(<<Tok("{"), Tok("}"), Tok("}")>>),
      DocText(Str(<<"x">>), Arr(<<Str(<<"a">>)>>)),
      DocText(Str(<<"x">>), Undefined),
      DocText(Null, Str(<<"a">>)),
      DocText(Undefined, SomeCategories),
      DocText(Obj(<<>>), Arr(<<>>)),
      DocText(Arr(<<Null>>), Arr(<<Num(1), Null>>)),
      DocText(Arr(<<Spent0105>>), Undefined),
      Text(Stringify(Doc(Arr(<<Spent0111, Spent0105>>), SomeCategories, SomeSettings))),
      Text(Stringify(Doc(Arr(<<Spent0105>>), SomeCategories, Str(<<"x">>)))),
      \* {"expenses":[{"amount":1e999}],"expenses":[1e999,-1e999,0e999,{"amount":2}]}
      Text(<< Tok("{"), NameTok("expenses"), Tok(":"), Tok("["),
              Tok("{"), NameTok("amount"), Tok(":"), NumberTok(1, 999), Tok("}"),
              Tok("]"), Tok(","), NameTok("expenses"), Tok(":"), Tok("["),
              NumberTok(1, 999), Tok(","), NumberTok(-1, 999), Tok(","), NumberTok(0, 999),
              Tok(","), Tok("{"), NameTok("amount"), Tok(":"), NumberTok(2, 0), Tok("}"),
              Tok("]"), Tok("}") >>) }

\* texts of files the user picks for import
ImportTexts ==
    { t \in StoredTexts : t.type = "text" }
    \cup { Text(<<Tok("true")>>), Text(<<StringTok(<<"x">>)>>),
           Text(<<Tok("["), NumberTok(1, 0), Tok(",")>>),
           Text(<<Tok("{"), NameTok("expenses"), Tok("}")>>) }

\* a call's record that also keeps the record of the call before it
Chained(op, args, result) ==
    [ op |-> op, args |-> args, result |-> result,
      pre |-> [expenses |-> expenses, categories |-> categories], from |-> last ]

StorageUnchanged ==
    UNCHANGED <<view, clock, DEFAULT_CATEGORIES, expenses, categories, categoriesShared, settings,
                calendarExpenses, modal, form, isInitialized, page>>

\* setItem throws where the storage refuses access; saveData catches it
Storage_saveData(data) ==
    /\ last = NoCall
    /\ storage' = IF Refused THEN storage ELSE SavedText(data)
    /\ last' = Chained("saveData", <<data>>, Undefined)
    /\ StorageUnchanged

Storage_loadData ==
    /\ last = NoCall
    /\ last' = Chained("loadData", <<>>, loadData)
    /\ UNCHANGED storage
    /\ StorageUnchanged

Storage_exportData ==
    /\ \E data \in (CASE last = NoCall -> SampleDocuments
                      [] last.op = "loadData" -> {last.result}
                      [] OTHER -> {}) :
            last' = Chained("exportData", <<data>>, exportData(data))
    /\ UNCHANGED storage
    /\ StorageUnchanged

Storage_importData ==
    /\ \E jsonString \in (CASE last = NoCall -> ImportTexts
                            [] last.op = "exportData" -> {last.result}
                            [] OTHER -> {}) :
            last' = Chained("importData", <<jsonString>>, importData(jsonString))
    /\ UNCHANGED storage
    /\ StorageUnchanged

StorageInit ==
    /\ Loaded
    /\ clock = StartClock
    /\ storage \in StoredTexts
    /\ PageLoaded

StorageNext ==
    \/ Tick
    \/ Returned
    \/ \E data \in SampleDocuments : Storage_saveData(data)
    \/ Storage_loadData
    \/ Storage_exportData
    \/ Storage_importData

SpecStorage == StorageInit /\ [][StorageNext]_vars

----------------------------------------------------------------------------
(* Properties of the storage adapter.                                      *)

\* importData took the export of the document loadData returned
RoundTrip ==
    /\ last.op = "importData"
    /\ last.from.op = "exportData"
    /\ last.from.from.op = "loadData"

\* the lists of the imported document are those of the loaded one
SameLists(loaded, imported) ==
    /\ imported.type = "object"
    /\ Get(imported, "expenses") = Get(loaded, "expenses")
    /\ Get(imported, "categories") = Get(loaded, "categories")

\* no number in v is an infinity or NaN
RECURSIVE AllFinite(_)
AllFinite(v) ==
    CASE v.type \in {"Infinity", "-Infinity", "NaN"} -> FALSE
      [] v.type = "array" -> \A i \in 1..Len(v.val) : AllFinite(v.val[i])
      [] v.type = "object" -> \A k \in DOMAIN v.val : AllFinite(v.val[k])
      [] OTHER -> TRUE

\* C6 as stated: for every document loadData returns, exporting it and
\* importing the export gives a document with the same expenses list and the
\* same categories list.
C6_RoundTripOfAnyLoad ==
    RoundTrip => SameLists(last.from.from.result, last.result)

\* The round trip does hold of every loaded document in which every number
\* is finite: a number is lost only where JSON has no text for it.
RoundTripOfFiniteLoad ==
    (RoundTrip /\ AllFinite(last.from.from.result))
        => SameLists(last.from.from.result, last.result)

\* a round trip of a loaded document that holds two records
RoundTripOfRecords ==
    /\ RoundTrip
    /\ AllFinite(last.from.from.result)
    /\ Get(last.from.from.result, "expenses") = Arr(<<Spent0111, Spent0105>>)
    /\ Get(last.result, "categories") = SomeCategories

\* the stored text is a JSON object whose expenses is no array
StoredExpensesNotArray ==
    /\ storage.type = "text"
    /\ JSONparse(storage).ok
    /\ IsObject(JSONparse(storage).value)
    /\ ~IsArray(Get(JSONparse(storage).value, "expenses"))

\* C10 as stated: loadData never throws, and when the stored document has a
\* non-array expenses value it returns the default document: an empty expenses
\* list together with the default category list.
C10_CorruptedLoadsDefault ==
    last.op = "loadData" =>
        /\ last.result.type = "object"
        /\ StoredExpensesNotArray =>
            /\ Get(last.result, "expenses") = Arr(<<>>)
            /\ Get(last.result, "categories") = Arr(DEFAULT_CATEGORIES)

\* C10, amended: loadData never throws, and when the stored document has a
\* non-array expenses value it returns a document with an empty expenses list,
\* whose category list is the stored one when that is an array and the default
\* category list otherwise.
C10_CorruptedLoadsEmptyExpenses ==
    last.op = "loadData" =>
        /\ last.result.type = "object"
        /\ StoredExpensesNotArray =>
            LET stored == Get(JSONparse(storage).value, "categories")
            IN  /\ Get(last.result, "expenses") = Arr(<<>>)
                /\ Get(last.result, "categories") =
                        IF IsArray(stored) THEN stored ELSE Arr(DEFAULT_CATEGORIES)

\* loadData has returned for a stored document whose expenses is a string and
\* whose categories is an array of its own
C10_Witness ==
    /\ last.op = "loadData"
    /\ StoredExpensesNotArray
    /\ IsString(Get(JSONparse(storage).value, "expenses"))
    /\ IsArray(Get(JSONparse(storage).value, "categories"))
    /\ Get(last.result, "categories") # Arr(DEFAULT_CATEGORIES)

----------------------------------------------------------------------------
(* ModalModule.  What it renders is held as data: the filter chips as a    *)
(* sequence of [category, active], the list as the rendered items or the   *)
(* empty-state message.  The title and the time of an item, whose text     *)
(* depends on the locale and the time zone, are left out.                  *)

\* the characters of the model in the order of their code units
CodeUnits ==
    << " ", "\"", "&", "'", "-", ".", "0", "1", "2", "3", "4", "5", "6", "7", "8", "9",
       ":", ";", "<", ">", "A", "B", "C", "D", "E", "F", "G", "H", "I", "J", "K", "L", "M",
       "N", "O", "P", "Q", "R", "S", "T", "U", "V", "W", "X", "Y", "Z", "a", "b", "c", "d",
       "e", "f", "g", "h", "i", "j", "k", "l", "m", "n", "o", "p", "q", "r", "s", "t", "u",
       "v", "w", "x", "y", "z" >>
CodeUnit(c) == CHOOSE i \in 1..Len(CodeUnits) : CodeUnits[i] = c

\* a < b on strings: by the first code unit that differs, a prefix first
RECURSIVE TextLess(_, _)
TextLess(a, b) ==
    IF b = <<>> THEN FALSE
    ELSE IF a = <<>> THEN TRUE
    ELSE IF Head(a) = Head(b) THEN TextLess(Tail(a), Tail(b))
    ELSE CodeUnit(Head(a)) < CodeUnit(Head(b))

\* [...new Set(list)]: the first occurrence of each value, in order
RECURSIVE Unique(_)
Unique(list) ==
    IF list = <<>> THEN <<>>
    ELSE LET front == Unique(SubSeq(list, 1, Len(list) - 1))
             v == list[Len(list)]
         IN  IF Includes(front, v) THEN front ELSE Append(front, v)

\* Array.prototype.sort(): by the text of each value, undefined last
RECURSIVE Sort(_)
Sort(list) ==
    IF list = <<>> THEN <<>>
    ELSE LET v == list[Len(list)]
             front == Sort(SubSeq(list, 1, Len(list) - 1))
             Before(e) == e # Undefined /\ (v = Undefined \/ ~TextLess(ToText(v), ToText(e)))
             n == Len(SelectSeq(front, Before))
         IN  SubSeq(front, 1, n) \o <<v>> \o SubSeq(front, n + 1, Len(front))

\* getCategoriesForDate(dateStr) of a repository that holds list
CategoriesForDate(list, dateStr) ==
    LET dayExpenses == OnDate(list, dateStr)
    IN  Sort(Unique([i \in 1..Len(dayExpenses) |-> Get(dayExpenses[i], "category")]))

getCategoriesForDate(dateStr) == CategoriesForDate(expenses, dateStr)

\* the digits in groups of three from the right, a full stop between the groups
RECURSIVE Grouped(_)
Grouped(digits) ==
    IF Len(digits) <= 3 THEN digits
    ELSE Grouped(SubSeq(digits, 1, Len(digits) - 3)) \o <<".">>
         \o SubSeq(digits, Len(digits) - 2, Len(digits))

\* Math.round(num).toLocaleString('vi-VN')
formatNumber(num) ==
    IF ~IsNumber(ToNumber(num)) THEN <<"N", "a", "N">>
    ELSE LET n == ToNumber(num)
             rounded == (2 * Numerator(n) + Denominator(n)) \div (2 * Denominator(n))
         IN  (IF rounded < 0 THEN <<"-">> ELSE <<>>) \o Grouped(NumberText(Abs(rounded)))

\* what setting an element's textContent to v makes its text
TextContent(v) == IF v \in {Null, Undefined} THEN <<>> ELSE ToText(v)

_getFilteredExpenses(m) ==
    LET InCategory(expense) == Get(expense, "category") = m.currentCategory
    IN  IF m.currentCategory = ALL_CATEGORIES THEN m.expenses
        ELSE SelectSeq(m.expenses, InCategory)

_renderEmptyState(m) ==
    IF m.currentCategory = ALL_CATEGORIES
    THEN <<NO_EXPENSES_DAY>>
    ELSE <<NO_EXPENSES_CATEGORY, " ", "\"">> \o ToText(m.currentCategory) \o <<"\"">>

_renderExpenseItem(expense) ==
    [ description |-> sanitizeHtml(TextContent(Get(expense, "description"))),
      category |-> sanitizeHtml(TextContent(Get(expense, "category"))),
      amount |-> formatNumber(Get(expense, "amount")),
      id |-> Get(expense, "id") ]

_renderExpenses(list) == [i \in 1..Len(list) |-> _renderExpenseItem(list[i])]

_renderExpensesList(m) ==
    LET filteredExpenses == _getFilteredExpenses(m)
    IN  IF Len(filteredExpenses) = 0
        THEN [kind |-> "empty", message |-> _renderEmptyState(m)]
        ELSE [kind |-> "expenses", items |-> _renderExpenses(filteredExpenses)]

_renderFilterChip(category, isActive) ==
    [category |-> sanitizeHtml(TextContent(category)), active |-> isActive]

\* the chips of modal m over a repository that holds list
_renderCategoryFilters(m, list) ==
    LET dayCategories == CategoriesForDate(list, m.currentDate)
    IN  <<_renderFilterChip(ALL_CATEGORIES, m.currentCategory = ALL_CATEGORIES)>>
        \o [i \in 1..Len(dayCategories) |->
                _renderFilterChip(dayCategories[i], m.currentCategory = dayCategories[i])]

\* modal m after show(dateStr, selectedCategory) over a repository that holds
\* list; an undefined category is 'all'
ShowOver(m, list, dateStr, selectedCategory) ==
    LET fetched == [ m EXCEPT
                        !.currentDate = dateStr,
                        !.currentCategory = IF selectedCategory = Undefined
                                            THEN ALL_CATEGORIES ELSE selectedCategory,
                        !.expenses = OnDate(list, dateStr) ]
    IN  [ fetched EXCEPT !.filters = _renderCategoryFilters(fetched, list),
                         !.list = _renderExpensesList(fetched),
                         !.isVisible = TRUE ]

show(dateStr, selectedCategory) == ShowOver(modal, expenses, dateStr, selectedCategory)

filterByCategory(category) ==
    LET chosen == [modal EXCEPT !.currentCategory = category]
    IN  [ chosen EXCEPT !.list = _renderExpensesList(chosen),
                        !.filters = _renderCategoryFilters(chosen, expenses) ]

hide == [modal EXCEPT !.isVisible = FALSE]

refresh == IF Truthy(modal.currentDate) THEN show(modal.currentDate, modal.currentCategory)
           ELSE modal

----------------------------------------------------------------------------
(* The modal over repositories drawn from a bounded set.                   *)

CategoryAmp == <<"a", "&">>
\* records of 2025-01-05 and 2025-01-06, one of them in a category that
\* bears the name of the 'all' filter
OfKhac == Record(At(2025, 1, 5, 1), <<"a">>, 100000, Khac, D0105)
OfX == Record(At(2025, 1, 5, 2), <<"b", "<">>, 2500, <<"x">>, D0105)
OfKhacLater == Record(At(2025, 1, 5, 3), <<"c">>, 70, Khac, D0105)
OfAmp == Record(At(2025, 1, 5, 4), <<"d">>, 1234567, CategoryAmp, D0106)
OfAll == Record(At(2025, 1, 5, 5), <<"e">>, 9, ALL_CATEGORIES.val, D0105)

ModalRepositories ==
    { <<>>, <<OfKhacLater, OfX, OfKhac>>, <<OfAmp, OfX>>, <<OfAll, OfKhac>>, <<OfAll>> }

\* the category list after the records of list were added, the last one first
RECURSIVE Registered(_)
Registered(list) ==
    IF list = <<>> THEN InitialDefaultCategories
    ELSE addCategory(Registered(Tail(list)), Get(Head(list), "category"))

ModalDates == {D0105, D0106, D0101, Str(<<>>)}
ModalCategories ==
    {ALL_CATEGORIES, Str(Khac), Str(<<"x">>), Str(CategoryAmp), Str(<<"z">>)}

ModalUnchanged ==
    UNCHANGED <<view, clock, DEFAULT_CATEGORIES, expenses, categories, categoriesShared, settings,
                calendarExpenses, storage, form, isInitialized, page>>

Modal_show(dateStr, selectedCategory) ==
    /\ last = NoCall
    /\ modal' = show(dateStr, selectedCategory)
    /\ last' = Call("show", <<dateStr, selectedCategory>>, Undefined)
    /\ ModalUnchanged

Modal_filterByCategory(category) ==
    /\ last = NoCall
    /\ modal' = filterByCategory(category)
    /\ last' = Call("filterByCategory", <<category>>, Undefined)
    /\ ModalUnchanged

Modal_hide ==
    /\ last = NoCall
    /\ modal' = hide
    /\ last' = Call("hide", <<>>, Undefined)
    /\ ModalUnchanged

Modal_refresh ==
    /\ last = NoCall
    /\ modal' = refresh
    /\ last' = Call("refresh", <<>>, Undefined)
    /\ ModalUnchanged

ModalInit ==
    /\ DEFAULT_CATEGORIES = InitialDefaultCategories
    /\ expenses \in ModalRepositories
    /\ categories = Registered(expenses)
    /\ categoriesShared = FALSE
    /\ settings = [totalBudget |-> Num(0), startDate |-> Null, endDate |-> Null]
    /\ calendarExpenses = expenses
    /\ modal = ModalClosed
    /\ form = [totalBudget |-> Str(<<>>), startDate |-> Str(<<>>), endDate |-> Str(<<>>)]
    /\ isInitialized = FALSE
    /\ last = NoCall
    /\ storage = NoItem
    /\ clock = StartClock
    /\ PageLoaded

ModalNext ==
    \/ Returned
    \/ \E dateStr \in ModalDates, selectedCategory \in ModalCategories \cup {Undefined} :
            Modal_show(dateStr, selectedCategory)
    \/ \E category \in ModalCategories : Modal_filterByCategory(category)
    \/ Modal_hide
    \/ Modal_refresh

SpecModal == ModalInit /\ [][ModalNext]_vars

----------------------------------------------------------------------------
(* Properties of the modal.                                                *)

\* the expenses of the shown date whose category is C, in repository order
OfCategory(C) ==
    LET InC(expense) == Get(expense, "category") = C
    IN  SelectSeq(getExpensesByDate(modal.currentDate), InC)

EmptyCategoryMessage(C) == <<NO_EXPENSES_CATEGORY, " ", "\"">> \o C.val \o <<"\"">>

\* the list rendered for filter C is that of the shown date's expenses in C
RendersCategory(C) ==
    IF OfCategory(C) # <<>>
    THEN modal.list = [kind |-> "expenses", items |-> _renderExpenses(OfCategory(C))]
    ELSE /\ modal.list = [kind |-> "empty", message |-> EmptyCategoryMessage(C)]
         /\ modal.list.message # <<NO_EXPENSES_DAY>>

\* C9: after show(D) and then filterByCategory(C), for any category name C,
\* the rendered list is exactly the expenses of D whose category is C, in
\* repository order; when there are none the empty-category message is
\* rendered, which differs from the message for a day without expenses.
\* (A category name is a name of the repository's category list.)
C9_FilterRendersCategory ==
    (last.op = "filterByCategory" /\ modal.isVisible /\ Includes(categories, last.args[1]))
        => RendersCategory(last.args[1])

\* The same does hold of every filter value other than the name of the 'all'
\* filter.
FilterRendersNamedCategory ==
    (last.op = "filterByCategory" /\ modal.isVisible /\ last.args[1] # ALL_CATEGORIES)
        => RendersCategory(last.args[1])

\* a filter that leaves two of three records of the day, and one that leaves none
FilterKeepsSome ==
    /\ last.op = "filterByCategory" /\ modal.isVisible
    /\ modal.list.kind = "expenses"
    /\ Len(modal.list.items) = 2 /\ Len(modal.expenses) = 3
FilterKeepsNone ==
    /\ last.op = "filterByCategory" /\ modal.isVisible
    /\ modal.list.kind = "empty" /\ modal.expenses # <<>>
    /\ last.args[1] # ALL_CATEGORIES

----------------------------------------------------------------------------
(* CalendarModule's day data and AppController (app.js).  A handler is one *)
(* action: where a call inside its try block throws, the action ends with  *)
(* what the calls before it have done.                                     *)

\* CalendarModule._getDayData(dateStr)
_getDayData(dateStr) ==
    LET dayExpenses == OnDate(calendarExpenses, dateStr)
    IN  [ expenses |-> dayExpenses,
          totalAmount |-> Reduce(Num(0), dayExpenses),
          hasExpenses |-> Len(dayExpenses) > 0,
          expenseCount |-> Len(dayExpenses) ]

getTotalForDate(dateStr) == Reduce(Num(0), OnDate(calendarExpenses, dateStr))

\* CalendarModule.render throws over list: _getDayData reads the date of every
\* element for each day of the month
renderThrows(list) == HasNullish(list)

\* what a field of the form holds after val(v)
FieldText(v) == Str(TextContent(v))

\* the budget form after _populateFormFields(given)
_populateFormFields(given) ==
    [ totalBudget |-> FieldText(OrElse(Get(given, "totalBudget"), Str(<<>>))),
      startDate |-> FieldText(OrElse(Get(given, "startDate"), getTodayString(clock))),
      endDate |-> FieldText(OrElse(Get(given, "endDate"), FallbackEndDate)) ]

\* _getExpenseFormData() with the three fields holding the texts of fields
_getExpenseFormData(fields) ==
    Obj([ description |-> Str(Trim(fields.description)),
          amount |-> parseFloat(Str(fields.amount)),
          category |-> OrElse(Str(Trim(fields.category)), Str(Khac)),
          date |-> getTodayString(clock) ])

\* _getCurrentData() for a repository that holds es and cs and a form that holds f
_getCurrentData(es, cs, f) == Doc(Arr(es), Arr(cs), Obj(f))

\* the stored item after _saveData()
_saveData(es, cs, f) ==
    IF Refused THEN storage ELSE SavedText(_getCurrentData(es, cs, f))

\* neither saveData nor _saveData catches what setItem throws
_saveDataThrows_uncaught == Refused

\* _saveData() throws: never, saveData and _saveData each catch what the
\* write throws
_saveDataThrows == FALSE

\* loadData and importData hand out CONFIG.DEFAULT_CATEGORIES itself, no copy
\* of it, where the parsed document has no array of categories
SharesDefaults(text) ==
    /\ text.type = "text" /\ text.val # <<>>
    /\ JSONparse(text).ok
    /\ JSONparse(text).value # Null
    /\ ~IsArray(Get(JSONparse(text).value, "categories"))

Alert(message) == [type |-> "alert", val |-> message]
NO_EXPENSE_FOUND == "NO_EXPENSE_FOUND"
EXPENSE_DELETED == "EXPENSE_DELETED"
APP_ERROR == "APP_ERROR"

\* a controller call's record: its name, arguments and outcome, and the
\* application's state before it
AppCall(op, args, result) ==
    [ op |-> op, args |-> args, result |-> result,
      pre |-> [ expenses |-> expenses, categories |-> categories, settings |-> settings,
                calendarExpenses |-> calendarExpenses, modal |-> modal,
                storage |-> storage, form |-> form, isInitialized |-> isInitialized,
                handlers |-> handlers, _currentDate |-> _currentDate,
                reader |-> reader ] ]

\* init goes on as if the application were never initialized
AlreadyInitialized_never == FALSE

\* the test init starts with
AlreadyInitialized == isInitialized

\* AppController.init(); the call's record lists, as its arguments, the reads of
\* the storage it made
App_init ==
    /\ last = NoCall
    /\ \E data \in {loadData} :
       \E es \in {Get(data, "expenses").val}, cs \in {Get(data, "categories").val},
          st \in {MakeSettings(Get(data, "settings"))},
          populated \in {_populateFormFields(Get(data, "settings"))} :
       \* _bindEventListeners ends by setting #startDate to today
       \E bound \in {[populated EXCEPT !.startDate = getTodayString(clock)]} :
        /\ Len(es) <= MaxExpenses
        /\ UNCHANGED <<clock, DEFAULT_CATEGORIES, modal, storage, _currentDate, timeout,
                       timers, reader>>
        /\ IF AlreadyInitialized
           THEN /\ last' = AppCall("init", <<>>, Undefined)
                /\ UNCHANGED <<expenses, categories, categoriesShared, settings,
                               calendarExpenses, form, isInitialized, handlers, view>>
           ELSE /\ expenses' = es
                /\ categories' = cs
                /\ categoriesShared' = SharesDefaults(storage)
                /\ settings' = st
                /\ IF updateDisplayThrows(es, st)
                   THEN /\ last' = AppCall("init", <<"loadData">>, Alert(APP_ERROR))
                        /\ UNCHANGED <<calendarExpenses, form, isInitialized, handlers, view>>
                   ELSE /\ updateDisplay(expenses', settings')
                        /\ calendarExpenses' = es
                        /\ IF renderThrows(es)
                           THEN /\ last' = AppCall("init", <<"loadData">>, Alert(APP_ERROR))
                                /\ UNCHANGED <<form, isInitialized, handlers>>
                           ELSE /\ form' = bound
                                \* _bindEventListeners adds a handler to each event
                                /\ handlers' = handlers + 1
                                /\ isInitialized' = TRUE
                                /\ last' = AppCall("init", <<"loadData">>, Undefined)

\* AppController.addExpense() with the expense form holding the texts of fields
App_addExpense(fields) ==
    /\ last = NoCall
    \* the handlers are bound, and the views rendered, by a successful init
    /\ isInitialized
    /\ Len(expenses) < MaxExpenses
    /\ \E expenseData \in {_getExpenseFormData(fields)} :
       \E out \in {addExpense(expenseData)} :
        /\ UNCHANGED <<clock, categoriesShared, settings, modal, form, isInitialized, page>>
        /\ IF ~Truthy(Get(expenseData, "description")) \/ ~Truthy(Get(expenseData, "amount"))
           THEN /\ last' = AppCall("addExpense", <<fields>>, Alert(VALIDATION_ERROR))
                /\ UNCHANGED <<DEFAULT_CATEGORIES, expenses, categories, calendarExpenses,
                               storage, view>>
           ELSE /\ expenses' = out.expenses
                /\ categories' = out.categories
                /\ DEFAULT_CATEGORIES' =
                        IF categoriesShared THEN out.categories ELSE DEFAULT_CATEGORIES
                /\ IF out.result.type = "thrown"
                   THEN /\ last' = AppCall("addExpense", <<fields>>, Alert(out.result.val))
                        /\ UNCHANGED <<calendarExpenses, storage, view>>
                   ELSE IF updateDisplayThrows(out.expenses, settings)
                   THEN /\ last' = AppCall("addExpense", <<fields>>, Alert(TypeError))
                        /\ UNCHANGED <<calendarExpenses, storage, view>>
                   ELSE /\ updateDisplay(expenses', settings')
                        /\ calendarExpenses' = out.expenses
                        /\ IF renderThrows(out.expenses)
                           THEN /\ last' = AppCall("addExpense", <<fields>>, Alert(TypeError))
                                /\ UNCHANGED storage
                           ELSE /\ storage' = _saveData(out.expenses, out.categories, form)
                                /\ last' = AppCall("addExpense", <<fields>>,
                                                   IF _saveDataThrows
                                                   THEN Alert("QuotaExceededError")
                                                   ELSE Undefined)

\* AppController.deleteExpense(id), the user answering the confirm dialog
App_deleteExpense(id, confirmed) ==
    LET expense == getExpenseById(id)
        expenseDate == IF Truthy(expense) THEN Get(expense, "date") ELSE Null
        out == deleteExpense(id)
        Unchanged == UNCHANGED <<expenses, categories, calendarExpenses, storage, modal,
                                 view>>
    IN  /\ last = NoCall
        \* the handlers are bound, and the views rendered, by a successful init
        /\ isInitialized
        /\ UNCHANGED <<clock, DEFAULT_CATEGORIES, categoriesShared, settings, form,
                       isInitialized, page>>
        /\ IF ~confirmed
           THEN /\ last' = AppCall("deleteExpense", <<id, confirmed>>, Undefined)
                /\ Unchanged
           ELSE IF HasNullish(expenses)
           THEN \* find or filter reads the id of null: caught, and this is the alert
                /\ last' = AppCall("deleteExpense", <<id, confirmed>>, Alert(EXPENSE_DELETED))
                /\ Unchanged
           ELSE IF ~out.result.val
           THEN /\ last' = AppCall("deleteExpense", <<id, confirmed>>, Alert(NO_EXPENSE_FOUND))
                /\ Unchanged
           ELSE /\ expenses' = out.expenses
                /\ categories' = out.categories
                /\ updateDisplay(expenses', settings')
                /\ calendarExpenses' = out.expenses
                /\ storage' = _saveData(out.expenses, out.categories, form)
                /\ modal' = IF ~_saveDataThrows /\ Truthy(expenseDate) /\ modal.isVisible
                            THEN ShowOver(modal, out.expenses, expenseDate,
                                          modal.currentCategory)
                            ELSE modal
                /\ last' = AppCall("deleteExpense", <<id, confirmed>>,
                                   IF _saveDataThrows THEN Alert(EXPENSE_DELETED)
                                   ELSE Undefined)

\* the file-read callback of AppController.importData, reader.onload, for a
\* file that holds jsonString, the user answering the confirm dialog
onload(jsonString, confirmed) ==
    LET Unchanged == UNCHANGED <<expenses, categories, categoriesShared, settings,
                                 calendarExpenses, form, storage, view>>
    IN  \E data \in {importData(jsonString)} :
        /\ last = NoCall
        \* the handlers are bound, and the views rendered, by a successful init
        /\ isInitialized
        /\ UNCHANGED <<clock, DEFAULT_CATEGORIES, modal, isInitialized, handlers, _currentDate,
                       timeout, timers>>
        /\ IF ~confirmed
           THEN /\ last' = AppCall("importData", <<jsonString, confirmed>>, Undefined)
                /\ Unchanged
           ELSE IF data.type = "thrown"
           THEN /\ last' = AppCall("importData", <<jsonString, confirmed>>, Alert(data.val))
                /\ Unchanged
           ELSE \E es \in {Get(data, "expenses").val}, cs \in {Get(data, "categories").val},
                   st \in {MakeSettings(Get(data, "settings"))},
                   populated \in {_populateFormFields(Get(data, "settings"))} :
                /\ Len(es) <= MaxExpenses
                /\ expenses' = es
                /\ categories' = cs
                /\ categoriesShared' = SharesDefaults(jsonString)
                /\ settings' = st
                /\ IF updateDisplayThrows(es, st)
                   THEN /\ last' = AppCall("importData", <<jsonString, confirmed>>, Alert(TypeError))
                        /\ UNCHANGED <<calendarExpenses, form, storage, view>>
                   ELSE /\ updateDisplay(expenses', settings')
                        /\ calendarExpenses' = es
                        /\ form' = populated
                        /\ IF renderThrows(es)
                           THEN /\ last' = AppCall("importData", <<jsonString, confirmed>>, Alert(TypeError))
                                /\ UNCHANGED storage
                           ELSE /\ storage' = _saveData(es, cs, populated)
                                /\ last' = AppCall("importData", <<jsonString, confirmed>>,
                                                   IF _saveDataThrows
                                                   THEN Alert("QuotaExceededError")
                                                   ELSE Undefined)

\* AppController.importData(event) for a file that is read at once
App_importData(jsonString, confirmed) ==
    /\ onload(jsonString, confirmed)
    /\ UNCHANGED reader

----------------------------------------------------------------------------
(* The application driven through the controller.                          *)

StoredRecord == Record(At(2025, 1, 4, 0), <<"s">>, 40000, Khac, D0105)
ImportedRecord == Record(At(2025, 1, 3, 0), <<"i">>, 600, <<"x">>, D0106)

\* what the stored item holds when the page loads
AppStoredTexts ==
    { NoItem, Denied,
      Text(Stringify(Doc(Arr(<<StoredRecord>>), SomeCategories, SomeSettings))),
      DocText(Arr(<<StoredRecord>>), Undefined) }

\* texts typed into the expense form: description, amount, category
ExpenseForms ==
    { [description |-> <<"a">>, amount |-> <<"1", "0", "0">>, category |-> <<>>],
      [description |-> <<" ", "b">>, amount |-> <<"7">>, category |-> <<"x", " ">>],
      [description |-> <<"c">>, amount |-> <<"-", "5">>, category |-> <<"x">>],
      [description |-> <<" ">>, amount |-> <<"7">>, category |-> <<>>] }

AppIds == {generateId(StartClock), generateId(At(2025, 1, 4, 0)), Num(1)}

\* texts of the files picked for import
AppImportTexts ==
    { Text(<<Tok("{")>>),
      Text(<<Tok("null")>>),
      Text(<<NumberTok(5, 0)>>),
      Text(<<Tok("["), Tok("]")>>),
      exportData(Doc(Arr(<<ImportedRecord>>), SomeCategories, SomeSettings)),
      DocText(Arr(<<Null>>), Undefined),
      Text(Stringify(Doc(Arr(<<Null>>), Arr(<<>>), SomeSettings))),
      \* {"expenses":[{"amount":1e999}]}
      Text(<< Tok("{"), NameTok("expenses"), Tok(":"), Tok("["),
              Tok("{"), NameTok("amount"), Tok(":"), NumberTok(1, 999), Tok("}"),
              Tok("]"), Tok("}") >>) }

AppInit ==
    /\ Loaded
    /\ clock = StartClock
    /\ storage \in AppStoredTexts
    /\ PageLoaded

AppNext ==
    \/ Tick
    \/ Returned
    \/ App_init
    \/ \E fields \in ExpenseForms : App_addExpense(fields)
    \/ \E id \in AppIds, confirmed \in BOOLEAN : App_deleteExpense(id, confirmed)
    \/ \E jsonString \in AppImportTexts, confirmed \in BOOLEAN :
            App_importData(jsonString, confirmed)

SpecApp == AppInit /\ [][AppNext]_vars

----------------------------------------------------------------------------
(* Properties of the application.                                          *)

AppDates == {D0105, D0106, D0101}

\* the calendar's total and count for dateStr are those of the repository
DayAgrees(dateStr) ==
    /\ getTotalForDate(dateStr) = getTotalSpent(getExpensesByDate(dateStr))
    /\ _getDayData(dateStr).totalAmount = getTotalSpent(getExpensesByDate(dateStr))
    /\ _getDayData(dateStr).expenseCount = Len(getExpensesByDate(dateStr))

\* C5: after any sequence of completed controller actions (init, addExpense,
\* deleteExpense, importData), for every date D the calendar's day total for D
\* is the sum of the amounts of ExpenseManager.getExpensesByDate(D), and its
\* expense count for D is the number of those records.
C5_CalendarAgreesWithRepository ==
    last = NoCall => \A dateStr \in AppDates : DayAgrees(dateStr)

\* The same does hold while the repository holds no null in place of a record.
CalendarAgreesOverRecords ==
    (last = NoCall /\ ~HasNullish(expenses)) => \A dateStr \in AppDates : DayAgrees(dateStr)

\* the calendar shows a day's total of one record after an add
CalendarShowsAdded ==
    /\ last = NoCall
    /\ isInitialized
    /\ Len(expenses) = 2
    /\ _getDayData(D0105).expenseCount = 2

----------------------------------------------------------------------------
(* Imports the adapter is to reject.                                       *)

\* the text is no JSON, or the root of its JSON is no object: a number, a
\* string, a boolean, null or an array
NotAnObjectRoot(text) ==
    LET parsed == JSONparse(text)
    IN  ~parsed.ok \/ ~IsObject(parsed.value)

ImportLeftAll ==
    /\ expenses = last.pre.expenses
    /\ categories = last.pre.categories
    /\ settings = last.pre.settings
    /\ storage = last.pre.storage

\* C11: an import whose text is not parseable JSON, or whose JSON root is not
\* an object (a number, string, boolean, null or an array), is rejected with
\* the import-format error, and after it the repository's expenses and
\* categories, the statistics settings and the persisted document are unchanged.
C11_NonObjectImportRejected ==
    (last.op = "importData" /\ last.args[2] /\ NotAnObjectRoot(last.args[1]))
        => /\ last.result = Alert(IMPORT_ERROR)
           /\ ImportLeftAll

\* It does hold of every such import whose root is no array.
NonArrayImportRejected ==
    ( /\ last.op = "importData" /\ last.args[2]
      /\ NotAnObjectRoot(last.args[1])
      /\ ~(JSONparse(last.args[1]).ok /\ IsArray(JSONparse(last.args[1]).value)) )
        => /\ last.result = Alert(IMPORT_ERROR)
           /\ ImportLeftAll

\* a confirmed import of the text 5 over a repository that holds a record
NumberImportRejected ==
    /\ last.op = "importData" /\ last.args[2]
    /\ last.args[1] = Text(<<NumberTok(5, 0)>>)
    /\ last.result = Alert(IMPORT_ERROR)
    /\ Len(expenses) > 0

----------------------------------------------------------------------------
(* Updates of the repository.                                              *)

\* old with the properties of partial written over it, but for id and timestamp
Merged(old, partial) ==
    Obj([ k \in DOMAIN old.val \cup DOMAIN partial.val \cup {"id", "timestamp"} |->
            IF k \in {"id", "timestamp"} THEN Get(old, k)
            ELSE IF k \in DOMAIN partial.val THEN partial.val[k]
            ELSE old.val[k] ])

\* the index of the first record of list that holds id
FirstWith(list, id) ==
    CHOOSE i \in 1..Len(list) :
        /\ Get(list[i], "id") = id
        /\ \A j \in 1..(i - 1) : Get(list[j], "id") # id

\* C12: updateExpense(id, partial): when id is present and the merged record is
\* valid, the stored record becomes the merge of the old record with partial
\* except that id and timestamp keep their original values even if partial
\* supplies them, and no other record changes; when the merged record is invalid
\* it throws the validation error and the repository is unchanged; when id is
\* absent it returns null and the repository is unchanged.
C12_UpdateMergesOrRejects ==
    (last.op = "updateExpense")
        => LET id == last.args[1]
               partial == last.args[2]
               before == last.pre.expenses
           IN  /\ categories = last.pre.categories
               /\ IF ~HoldsId(before, id)
                  THEN /\ last.result = Null
                       /\ expenses = before
                  ELSE LET i == FirstWith(before, id)
                           merged == Merged(before[i], partial)
                       IN  IF BlankDescription(merged) \/ BadAmount(merged)
                           THEN /\ last.result = Thrown(VALIDATION_ERROR)
                                /\ expenses = before
                           ELSE /\ last.result = merged
                                /\ expenses = [before EXCEPT ![i] = merged]

\* an update that supplies another id and timestamp went through, over a
\* repository of two records
C12_Witness ==
    /\ last.op = "updateExpense"
    /\ "id" \in DOMAIN last.args[2].val
    /\ IsObject(last.result)
    /\ Get(last.result, "id") = last.args[1]
    /\ Get(last.result, "category") = Str(<<"z">>)
    /\ Len(expenses) = 2
    /\ expenses # last.pre.expenses

----------------------------------------------------------------------------
(* The category set against the records.                                   *)

\* the category set holds every name the call before found in it
CategoriesNeverShrink ==
    last # NoCall
        => \A i \in 1..Len(last.pre.categories) :
                Includes(categories, last.pre.categories[i])

\* C13: starting from the default category set, after any sequence of
\* addExpense, updateExpense and deleteExpense calls, the category of every
\* expense in the repository is a member of the category set, and the category
\* set never loses a name it contained earlier.
C13_CategoriesCoverExpenses ==
    /\ \A i \in 1..Len(expenses) : Includes(categories, Get(expenses[i], "category"))
    /\ CategoriesNeverShrink

\* What an add registers is the trimmed text of the category it stores.
AddRegistersTrimmed ==
    (last.op = "addExpense" /\ IsObject(last.result))
        => Includes(categories, Str(Trim(Get(last.result, "category").val)))

\* an add registered a category the set did not hold
CategoryRegistered ==
    /\ last.op = "addExpense"
    /\ Len(categories) > Len(last.pre.categories)
    /\ Includes(categories, Str(<<"x">>))

----------------------------------------------------------------------------
(* init called again.                                                      *)

\* C14: once init has completed successfully, any further init call changes
\* nothing: the repository, statistics settings, calendar and form state are
\* untouched, storage is not re-read and no additional event handlers are bound.
C14_SecondInitChangesNothing ==
    (last.op = "init" /\ last.pre.isInitialized)
        => /\ expenses = last.pre.expenses
           /\ categories = last.pre.categories
           /\ settings = last.pre.settings
           /\ calendarExpenses = last.pre.calendarExpenses
           /\ form = last.pre.form
           /\ storage = last.pre.storage
           /\ isInitialized
           /\ handlers = last.pre.handlers
           /\ last.args = <<>>
           /\ last.result = Undefined

\* init was called again after an add that the storage refused to save, so
\* that a second load would have emptied the repository
C14_Witness ==
    /\ last.op = "init"
    /\ last.pre.isInitialized
    /\ Len(expenses) = 1
    /\ storage = Denied
    /\ handlers = 1

----------------------------------------------------------------------------
(* The order of a mutating action's steps, and what it stores.             *)

\* the call was an add, a delete the user accepted or an import the user accepted
MutatingAction ==
    \/ last.op = "addExpense"
    \/ last.op \in {"deleteExpense", "importData"} /\ last.args[2]

\* the document the stored item holds
StoredDocument == JSONparse(storage).value

StoredIsRepository ==
    /\ Get(StoredDocument, "expenses") = Arr(expenses)
    /\ Get(StoredDocument, "categories") = Arr(categories)

\* the action got as far as its last step, and the storage took the write
RanToItsEnd ==
    /\ MutatingAction
    /\ last.result = Undefined
    /\ storage.type = "text"
    /\ storage # last.pre.storage

\* The steps come in the order mutation, refresh, persistence: a refresh the
\* action made shows the repository as the mutation left it, and a write it
\* made came after such a refresh.
StepsInOrder ==
    MutatingAction
        => /\ (calendarExpenses # last.pre.calendarExpenses => calendarExpenses = expenses)
           /\ (storage # last.pre.storage => calendarExpenses = expenses)
           /\ (last.result = Alert(TypeError) => storage = last.pre.storage)

\* C15: each controller add, accepted delete and accepted valid import performs
\* its steps in the order repository mutation, then view refresh, then
\* persistence; and whenever such an action has run to its end and the storage
\* write succeeded, the expenses and categories of the stored document are
\* equal to the repository's expenses and categories.
C15_StoredAfterMutation ==
    /\ StepsInOrder
    /\ RanToItsEnd => StoredIsRepository

\* The stored lists are the repository's while every number the repository
\* holds is finite.
StoredFiniteAfterMutation ==
    (RanToItsEnd /\ AllFinite(Arr(expenses))) => StoredIsRepository

\* an add ran to its end over a repository that held a record, and was stored
AddStored ==
    /\ RanToItsEnd
    /\ last.op = "addExpense"
    /\ Len(expenses) = 2
    /\ StoredIsRepository

----------------------------------------------------------------------------
(* The controller with the day's modal: days are opened and closed between *)
(* adds and deletes, over a stored document with records of two days.      *)

MODAL_ERROR == "MODAL_ERROR"

\* AppController.showDailyExpenses(dateStr, selectedCategory)
App_showDailyExpenses(dateStr, selectedCategory) ==
    /\ last = NoCall
    \* the day cells are rendered by a successful init
    /\ isInitialized
    /\ IF HasNullish(expenses)
       THEN \* getExpensesByDate throws after show has taken the date and the category
            /\ modal' = [ modal EXCEPT
                            !.currentDate = dateStr,
                            !.currentCategory = IF selectedCategory = Undefined
                                                THEN ALL_CATEGORIES ELSE selectedCategory ]
            /\ last' = AppCall("showDailyExpenses", <<dateStr, selectedCategory>>,
                               Alert(MODAL_ERROR))
       ELSE /\ modal' = show(dateStr, selectedCategory)
            /\ last' = AppCall("showDailyExpenses", <<dateStr, selectedCategory>>, Undefined)
    /\ UNCHANGED <<view, clock, DEFAULT_CATEGORIES, expenses, categories, categoriesShared, settings,
                   calendarExpenses, storage, form, isInitialized, page>>

\* the close button, the overlay or the Escape key: ModalModule.hide()
App_hide ==
    /\ last = NoCall
    /\ isInitialized
    /\ modal.isVisible
    /\ modal' = hide
    /\ last' = AppCall("hide", <<>>, Undefined)
    /\ UNCHANGED <<view, clock, DEFAULT_CATEGORIES, expenses, categories, categoriesShared, settings,
                   calendarExpenses, storage, form, isInitialized, page>>

LaterRecord == Record(At(2025, 1, 4, 1), <<"l">>, 70, <<"x">>, D0106)
UndatedRecord == Obj([id |-> Num(2), description |-> Str(<<"u">>), amount |-> Num(5)])

\* a record of the day the page is loaded on, with no amount
UnpricedRecord == Obj([id |-> Num(3), description |-> Str(<<"p">>), date |-> D0105])

DayStoredTexts ==
    { Text(Stringify(Doc(Arr(<<LaterRecord, StoredRecord>>), SomeCategories, SomeSettings))),
      Text(Stringify(Doc(Arr(<<UndatedRecord, StoredRecord>>), SomeCategories, SomeSettings))),
      Text(Stringify(Doc(Arr(<<UnpricedRecord, StoredRecord>>), SomeCategories,
                         SomeSettings))) }

DayForms ==
    { [description |-> <<"a">>, amount |-> <<"1", "0", "0">>, category |-> <<>>],
      \* texts that hold characters of markup
      [description |-> <<"<">>, amount |-> <<"7">>, category |-> CategoryAmp] }
DayIds == {Get(StoredRecord, "id"), Get(LaterRecord, "id"), Num(2), Num(1)}
DayDates == {D0105, D0106}

DayInit ==
    /\ Loaded
    /\ clock = StartClock
    /\ storage \in DayStoredTexts
    /\ PageLoaded

DayNext ==
    \/ Returned
    \/ App_init
    \/ \E fields \in DayForms : App_addExpense(fields)
    \/ \E id \in DayIds, confirmed \in BOOLEAN : App_deleteExpense(id, confirmed)
    \/ \E dateStr \in DayDates, selectedCategory \in {Undefined, Str(<<"x">>)} :
            App_showDailyExpenses(dateStr, selectedCategory)
    \/ App_hide

SpecDay == DayInit /\ [][DayNext]_vars

\* the delete was accepted and took a record out
Deleted ==
    /\ last.op = "deleteExpense"
    /\ last.args[2]
    /\ last.result = Undefined
    /\ expenses # last.pre.expenses

\* the date of the record a delete of id looks at: the first one to hold the id
DeletedDate ==
    Get(last.pre.expenses[FirstWith(last.pre.expenses, last.args[1])], "date")

\* C16: a successful deleteExpense(id) re-shows the modal only if the modal was
\* visible and showing the date of the deleted expense; in every case the date
\* the modal is showing after the delete is the date it was showing before the
\* delete, and a hidden modal stays hidden.
C16_DeleteKeepsModalDate ==
    Deleted
        => /\ ( modal # last.pre.modal
                 => last.pre.modal.isVisible /\ last.pre.modal.currentDate = DeletedDate )
           /\ modal.currentDate = last.pre.modal.currentDate
           /\ (~last.pre.modal.isVisible => ~modal.isVisible)

\* A delete leaves a hidden modal as it is, and shows a visible one the
\* remaining records of the date of the deleted record.
DeleteShowsDeletedDate ==
    Deleted
        => IF last.pre.modal.isVisible /\ Truthy(DeletedDate)
           THEN /\ modal.isVisible
                /\ modal.currentDate = DeletedDate
                /\ modal.expenses = getExpensesByDate(DeletedDate)
           ELSE modal = last.pre.modal

\* a record of the day the modal shows was deleted, and the modal shows the rest
DeletedFromShownDay ==
    /\ Deleted
    /\ last.pre.modal.isVisible
    /\ last.pre.modal.currentDate = DeletedDate
    /\ Len(last.pre.modal.expenses) = 2
    /\ Len(modal.expenses) = 1

----------------------------------------------------------------------------
(* CalendarModule's navigation (calendar.js).  The dates are taken in UTC. *)

MaxMonths == 13

getFullYear(date) == CivilFromDays(date.day).y
\* the month of date, 0 to 11
getMonth(date) == CivilFromDays(date.day).m - 1
getDate(date) == CivilFromDays(date.day).d

\* date after setMonth(month): the same day-of-month and time of day in the
\* month that lies month months after January of the date's year; a day the
\* month does not have runs over into the months after it
setMonth(date, month) ==
    DateAt(DaysFromCivil(getFullYear(date) + (month \div 12), (month % 12) + 1, 1)
                + getDate(date) - 1,
           date.ms)

\* the year and month (0 to 11) render puts on the page
Displayed(date) == [year |-> getFullYear(date), month |-> getMonth(date)]

\* the number of months from January of year 0 to the displayed month
MonthNumber(date) == getFullYear(date) * 12 + getMonth(date)

CalendarUnchanged ==
    UNCHANGED <<view, clock, DEFAULT_CATEGORIES, expenses, categories, categoriesShared, settings,
                calendarExpenses, modal, storage, form, isInitialized, handlers, timeout,
                timers, reader>>

\* the #prevMonth button: CalendarModule.previousMonth()
Calendar_previousMonth ==
    /\ last = NoCall
    /\ isInitialized
    /\ MonthNumber(_currentDate) > MonthNumber(clock) - MaxMonths
    /\ _currentDate' = setMonth(_currentDate, getMonth(_currentDate) - 1)
    /\ last' = AppCall("previousMonth", <<>>, Undefined)
    /\ CalendarUnchanged

\* the #nextMonth button: CalendarModule.nextMonth()
Calendar_nextMonth ==
    /\ last = NoCall
    /\ isInitialized
    /\ MonthNumber(_currentDate) < MonthNumber(clock) + MaxMonths
    /\ _currentDate' = setMonth(_currentDate, getMonth(_currentDate) + 1)
    /\ last' = AppCall("nextMonth", <<>>, Undefined)
    /\ CalendarUnchanged

\* the instants at which the page is loaded
CalendarClocks ==
    { At(2025, 1, 5, 0), At(2025, 1, 31, 0), At(2024, 12, 31, 7), At(2024, 2, 29, 0),
      At(2025, 3, 30, 0), At(2025, 5, 28, 0), At(2025, 10, 1, 0) }

CalendarInit ==
    /\ Loaded
    /\ clock \in CalendarClocks
    /\ storage = NoItem
    /\ PageLoaded

CalendarNext ==
    \/ Returned
    \/ App_init
    \/ Calendar_previousMonth
    \/ Calendar_nextMonth

SpecCalendar == CalendarInit /\ [][CalendarNext]_vars

\* C17: for every state of the calendar (whatever day-of-month its internal
\* date carries, 1 to 31), nextMonth changes the displayed (year, month) to the
\* immediately following calendar month (December to January of the next year)
\* and previousMonth to the immediately preceding one (January to December of
\* the previous year).
C17_NavigationStepsOneMonth ==
    /\ last.op = "nextMonth"
         => MonthNumber(_currentDate) = MonthNumber(last.pre._currentDate) + 1
    /\ last.op = "previousMonth"
         => MonthNumber(_currentDate) = MonthNumber(last.pre._currentDate) - 1

\* The step is one month whenever the month stepped to has the day-of-month
\* the calendar's date carries.
NavigationWithinMonthLength ==
    LET before == last.pre._currentDate
        HasDay(number) == getDate(before) <= DaysInMonth(number \div 12, (number % 12) + 1)
    IN  /\ (last.op = "nextMonth" /\ HasDay(MonthNumber(before) + 1))
             => MonthNumber(_currentDate) = MonthNumber(before) + 1
        /\ (last.op = "previousMonth" /\ HasDay(MonthNumber(before) - 1))
             => MonthNumber(_currentDate) = MonthNumber(before) - 1

\* December was left for January of the next year
SteppedOverNewYear ==
    /\ last.op = "nextMonth"
    /\ Displayed(last.pre._currentDate) = [year |-> 2024, month |-> 11]
    /\ Displayed(_currentDate) = [year |-> 2025, month |-> 0]

----------------------------------------------------------------------------
(* Utils.debounce over the budget fields (helpers.js, app.js).  One         *)
(* debounced handler serves the three fields, so they share its timer.     *)
(* A timer's callback runs at the instant the timer falls due: time does    *)
(* not pass a due timer, and an event that arrives from then on is handled  *)
(* after the callback.                                                     *)

wait == 300
Step == 100
MaxSteps == 7
MaxEvents == 3

Now == DateNow(clock)

\* clearTimeout that cancels nothing
clearTimeout_nothing(id, pending) == pending

\* the pending timers after clearTimeout(id)
clearTimeout(id, pending) == {t \in pending : Num(t.id) # id}

\* the id setTimeout hands out next: the browser counts them up
NextTimer == IF timeout = Undefined THEN 1 ELSE timeout.val + 1

Overdue == \E t \in timers : Now >= t.due

\* time passes
Elapse ==
    /\ last = NoCall
    /\ ~Overdue
    \* time runs on to the instant a pending timer falls due
    /\ timers # {} \/ Now - DateNow(StartClock) < MaxSteps * Step
    /\ clock' = [clock EXCEPT !.ms = @ + Step]
    /\ UNCHANGED <<view, DEFAULT_CATEGORIES, expenses, categories, categoriesShared, settings,
                   calendarExpenses, modal, storage, form, isInitialized, page, last>>

\* an input or change event of a budget field, the user having put text in
\* it: the debounced handler, executedFunction
Budget_input(field, text) ==
    /\ last = NoCall
    /\ isInitialized
    /\ ~Overdue
    /\ NextTimer <= MaxEvents
    /\ form' = [form EXCEPT ![field] = Str(text)]
    /\ timers' = clearTimeout(timeout, timers) \cup {[id |-> NextTimer, due |-> Now + wait]}
    /\ timeout' = Num(NextTimer)
    /\ last' = AppCall("input", <<field, text>>, Undefined)
    /\ UNCHANGED <<view, clock, DEFAULT_CATEGORIES, expenses, categories, categoriesShared, settings,
                   calendarExpenses, modal, storage, isInitialized, handlers, _currentDate,
                   reader>>

\* a timer falls due and runs later: clearTimeout(timeout), then
\* AppController.updateBudgetSettings()
Timer_later(t) ==
    LET st == MakeSettings(Obj(form))
    IN  /\ last = NoCall
        /\ t \in timers
        /\ Now >= t.due
        /\ timers' = clearTimeout(timeout, timers \ {t})
        /\ settings' = st
        /\ UNCHANGED <<clock, DEFAULT_CATEGORIES, expenses, categories, categoriesShared,
                       calendarExpenses, modal, form, isInitialized, handlers, _currentDate,
                       timeout, reader>>
        /\ IF updateDisplayThrows(expenses, st)
           THEN \* caught by updateBudgetSettings, which then saves nothing
                UNCHANGED <<storage, view>>
           ELSE /\ updateDisplay(expenses', settings')
                /\ storage' = _saveData(expenses, categories, form)
        /\ last' = AppCall("later", <<t>>, Undefined)

BudgetFields == {"totalBudget", "endDate"}
BudgetTexts == {<<"5", "0", "0", "0">>, D0111.val}

BudgetInit ==
    /\ Loaded
    /\ clock = StartClock
    /\ storage \in {NoItem, Text(Stringify(Doc(Arr(<<StoredRecord>>), SomeCategories,
                                                SomeSettings)))}
    /\ PageLoaded

BudgetNext ==
    \/ Returned
    \/ Elapse
    \/ App_init
    \/ \E field \in BudgetFields, text \in BudgetTexts : Budget_input(field, text)
    \/ \E t \in timers : Timer_later(t)

SpecBudget == BudgetInit /\ [][BudgetNext]_vars

\* C18: for any burst of budget-field input events in which each event
\* arrives less than the 300 ms quiet interval after the previous one,
\* updateBudgetSettings runs exactly once, only after the quiet interval has
\* elapsed since the last event of the burst, and it applies the field values
\* present at that moment; it never runs while a newer event's interval is
\* still pending.  As a property of states: the only timer pending is that of
\* the newest event, due the quiet interval after it; and a run is by that
\* timer, at or after its due instant, leaves no timer behind and makes the
\* settings those of the fields as they are.
C18_DebouncedUpdate ==
    /\ Cardinality(timers) <= 1
    /\ \A t \in timers : Num(t.id) = timeout
    /\ last.op = "input" => timers = {[id |-> timeout.val, due |-> Now + wait]}
    /\ last.op = "later"
         => /\ Num(last.args[1].id) = timeout
            /\ Now >= last.args[1].due
            /\ timers = {}
            /\ form = last.pre.form
            /\ settings = MakeSettings(Obj(form))

\* the update ran for a burst of two events, the quiet interval after the
\* second, and took the budget the first had typed
C18_Witness ==
    /\ last.op = "later"
    /\ last.args[1] = [id |-> 2, due |-> DateNow(StartClock) + Step + wait]
    /\ form.totalBudget = Str(<<"5", "0", "0", "0">>)
    /\ form.endDate = D0111
    /\ settings.totalBudget = Num(5000)
    /\ settings # last.pre.settings

----------------------------------------------------------------------------
(* The import of a file whose read takes time: other handlers run between  *)
(* the choice of the file and the callback of its read.                    *)

MaxReads == 1

\* AppController.importData(event) for a chosen file that holds jsonString:
\* a new FileReader starts to read it
Import_select(jsonString) ==
    /\ last = NoCall
    /\ isInitialized
    /\ Len(reader) < MaxReads
    /\ reader' = Append(reader, jsonString)
    /\ last' = AppCall("readAsText", <<jsonString>>, Undefined)
    /\ UNCHANGED <<view, clock, DEFAULT_CATEGORIES, expenses, categories, categoriesShared, settings,
                   calendarExpenses, modal, storage, form, isInitialized, handlers,
                   _currentDate, timeout, timers>>

\* the read of the i-th file under way ends: its reader calls onload, once
Reader_onload(i, confirmed) ==
    /\ i \in 1..Len(reader)
    /\ onload(reader[i], confirmed)
    /\ reader' = RemoveAt(reader, i)

AsyncStoredTexts ==
    {NoItem, Text(Stringify(Doc(Arr(<<StoredRecord>>), SomeCategories, SomeSettings)))}
AsyncForms == {[description |-> <<"a">>, amount |-> <<"1", "0", "0">>, category |-> <<>>]}
AsyncIds == {Get(StoredRecord, "id"), Get(ImportedRecord, "id")}
AsyncImportTexts ==
    { exportData(Doc(Arr(<<ImportedRecord>>), Arr(<<Str(<<"x">>)>>), Obj(<<>>))),
      DocText(Arr(<<Null>>), Undefined) }

AsyncInit ==
    /\ Loaded
    /\ clock = StartClock
    /\ storage \in AsyncStoredTexts
    /\ PageLoaded

AsyncNext ==
    \/ Returned
    \* time is let pass while a budget edit waits for its quiet interval
    \/ timers # {} /\ Elapse
    \/ App_init
    \/ \E fields \in AsyncForms : App_addExpense(fields)
    \/ \E id \in AsyncIds : App_deleteExpense(id, TRUE)
    \* one budget edit
    \/ timeout = Undefined /\ Budget_input("totalBudget", <<"5", "0", "0", "0">>)
    \/ \E t \in timers : Timer_later(t)
    \/ \E jsonString \in AsyncImportTexts : Import_select(jsonString)
    \/ \E i \in 1..Len(reader), confirmed \in BOOLEAN : Reader_onload(i, confirmed)

SpecAsync == AsyncInit /\ [][AsyncNext]_vars

\* the document StorageManager.importData makes of the text of the call
ImportedDocument == importData(last.args[1])

\* the application holds the imported document, everywhere
HoldsImported ==
    /\ expenses = Get(ImportedDocument, "expenses").val
    /\ categories = Get(ImportedDocument, "categories").val
    /\ settings = MakeSettings(Get(ImportedDocument, "settings"))
    /\ form = _populateFormFields(Get(ImportedDocument, "settings"))
    /\ calendarExpenses = expenses
    /\ storage.type = "text"
    /\ StoredIsRepository

LeftByImport ==
    /\ expenses = last.pre.expenses
    /\ categories = last.pre.categories
    /\ settings = last.pre.settings
    /\ form = last.pre.form
    /\ calendarExpenses = last.pre.calendarExpenses
    /\ storage = last.pre.storage

\* C19: whatever controller actions (add, delete, budget edits, pending
\* debounce firings) interleave between selecting an import file and the
\* file-read callback, the callback runs once, and after a confirmed valid
\* import the repository's expenses and categories are exactly those of the
\* imported document, the statistics settings and budget form hold the
\* imported settings, and the calendar copy and persisted document match the
\* repository; if the confirmation is declined, all of that state is unchanged.
C19_ImportAfterInterleaving ==
    (last.op = "importData")
        => /\ Len(reader) = Len(last.pre.reader) - 1
           /\ IF ~last.args[2] THEN LeftByImport
              ELSE ImportedDocument.type = "object" => HoldsImported

\* It does hold of every import whose document holds records only.
ImportOfRecordsAfterInterleaving ==
    (last.op = "importData")
        => /\ Len(reader) = Len(last.pre.reader) - 1
           /\ IF ~last.args[2] THEN LeftByImport
              ELSE ( /\ ImportedDocument.type = "object"
                     /\ ~HasNullish(Get(ImportedDocument, "expenses").val) )
                        => HoldsImported

\* a confirmed import replaced a repository that an add had changed after the
\* file was chosen
ImportedOverLaterAdd ==
    /\ last.op = "importData"
    /\ last.args[2]
    /\ Len(last.pre.expenses) = 2
    /\ Get(last.pre.expenses[1], "description") = Str(<<"a">>)
    /\ expenses = <<ImportedRecord>>
    /\ HoldsImported

----------------------------------------------------------------------------
(* The records the repository holds.                                       *)

\* a record with a numeric amount above zero and a description that is not
\* empty after trimming
ValidRecord(expense) ==
    /\ IsObject(expense)
    /\ Get(expense, "amount").type = "number"
    /\ Get(expense, "amount").val > 0
    /\ IsString(Get(expense, "description"))
    /\ Trim(Get(expense, "description").val) # <<>>

\* C20: in every reachable state, after any sequence of init (from load or
\* import), addExpense, updateExpense and deleteExpense, every record held by
\* the repository has a numeric amount > 0 and a description that is
\* non-empty after trimming.
C20_RecordsValid ==
    \A i \in 1..Len(expenses) : IsObject(expenses[i]) => ValidRecord(expenses[i])

\* The records that addExpense and updateExpense put in the repository are
\* valid ones.
WrittenRecordsValid ==
    (last.op \in {"addExpense", "updateExpense"} /\ IsObject(last.result))
        => /\ ValidRecord(last.result)
           /\ Includes(expenses, last.result)

\* an update changed the amount of one of two records
UpdatedAmount ==
    /\ last.op = "updateExpense"
    /\ IsObject(last.result)
    /\ Get(last.result, "amount") = Num(250)
    /\ Len(expenses) = 2
    /\ expenses # last.pre.expenses

----------------------------------------------------------------------------
(* The remaining-budget card and the days-remaining banner.                *)

\* the marker the statistics call for
MarkerOf(stats) ==
    IF stats.isOverBudget.val THEN "bg-red-500"
    ELSE IF stats.isLowBudget.val THEN "bg-orange-500"
    ELSE "stat-remaining"

\* the markers the card carries
Markers == remainingCard \cap {"bg-red-500", "bg-orange-500", "stat-remaining"}

\* C22: after every statistics display update, in any sequence of updates,
\* the remaining-budget card carries the red marker if and only if the
\* current statistics are over budget, the orange marker if and only if they
\* are low-budget and not over budget, and the normal marker otherwise; a
\* marker set by an earlier update never persists once the condition no
\* longer holds.
C22_MarkerFollowsStatistics == Markers = {MarkerOf(_calculateStatistics)}

\* The card carries one marker, and the normal one only while the statistics
\* call for it.
MarkerWhileNormal ==
    /\ Cardinality(Markers) = 1
    /\ "stat-remaining" \in remainingCard
            => MarkerOf(_calculateStatistics) = "stat-remaining"

\* the card is red over statistics that are over budget
MarkedOverBudget ==
    /\ _calculateStatistics.isOverBudget.val
    /\ Markers = {"bg-red-500"}

\* C26: when the budget settings are degenerate (start or end date absent,
\* or start >= end), a statistics display update leaves the days-remaining
\* warning banner hidden: neither the budget-exhausted message nor the
\* days-left warning is shown.
C26_DegenerateHidesBanner == Degenerate => warning.hidden

\* Over degenerate settings the banner is hidden only while no update has
\* written to it.
DegenerateBannerUntouched == (Degenerate /\ warning.hidden) => warning.html = <<>>

\* With an end date that is a date and a start before it, the banner follows
\* the days that remain.
BannerFollowsDays ==
    (~Degenerate /\ IsDate(settings.endDate) /\ IsDate(settings.startDate))
        => LET days == daysBetween(clock, settings.endDate)
           IN  IF days <= 0 THEN warning = [hidden |-> FALSE, html |-> BUDGET_EXCEEDED]
               ELSE IF days <= WARNING_DAYS_THRESHOLD
               THEN warning = [hidden |-> FALSE, html |-> BUDGET_WARNING(days)]
               ELSE warning.hidden

----------------------------------------------------------------------------
(* The daily allowance and the two flags.                                  *)

\* the allowance is a number not below zero, and at most one flag is set
Sound(stats) ==
    /\ LessEq(Num(0), stats.dailyBudget)
    /\ ~(stats.isOverBudget.val /\ stats.isLowBudget.val)

\* C25: for every budget, date settings, current day and repository content,
\* the statistics result satisfies dailyBudget >= 0, and isOverBudget and
\* isLowBudget are never both true.
C25_AllowanceNotNegative == Sound(_calculateStatistics)

\* It does hold over a repository of valid records.
AllowanceOverValidRecords ==
    (\A i \in 1..Len(expenses) : ValidRecord(expenses[i])) => Sound(_calculateStatistics)

\* The two flags are never both set, whatever the repository holds.
FlagsExclusive ==
    ~(_calculateStatistics.isOverBudget.val /\ _calculateStatistics.isLowBudget.val)

\* the statistics are low-budget: an allowance above zero and below the threshold
LowAllowance ==
    /\ _calculateStatistics.isLowBudget.val
    /\ Less(Num(0), _calculateStatistics.dailyBudget)
    /\ Less(_calculateStatistics.dailyBudget, Num(LOW_BUDGET_THRESHOLD))

----------------------------------------------------------------------------
(* The application over a storage that refuses every write: access to it   *)
(* is denied, or its quota is used up.                                     *)

DegradedStoredTexts ==
    { Denied,
      QuotaExceeded(Text(Stringify(Doc(Arr(<<StoredRecord>>), SomeCategories,
                                       SomeSettings)))) }

DegradedIds == {Get(StoredRecord, "id"), generateId(StartClock)}

DegradedImportTexts ==
    { exportData(Doc(Arr(<<ImportedRecord>>), Arr(<<Str(<<"x">>)>>), Obj(<<>>))),
      Text(<<Tok("{")>>) }

DegradedInit ==
    /\ Loaded
    /\ clock = StartClock
    /\ storage \in DegradedStoredTexts
    /\ PageLoaded

DegradedNext ==
    \/ Returned
    \* time is let pass while a budget edit waits for its quiet interval
    \/ timers # {} /\ Elapse
    \/ App_init
    \/ \E fields \in ExpenseForms : App_addExpense(fields)
    \/ \E id \in DegradedIds : App_deleteExpense(id, TRUE)
    \* one budget edit
    \/ timeout = Undefined /\ Budget_input("totalBudget", <<"5", "0", "0", "0">>)
    \/ \E t \in timers : Timer_later(t)
    \/ \E jsonString \in DegradedImportTexts : App_importData(jsonString, TRUE)

SpecDegraded == DegradedInit /\ [][DegradedNext]_vars

\* the record at the head of the repository is the one the form supplied
HeadSupplied(supplied) ==
    /\ expenses # <<>>
    /\ Tail(expenses) = last.pre.expenses
    /\ Get(Head(expenses), "description")
            = Str(sanitizeHtml(Trim(Get(supplied, "description").val)))
    /\ \A k \in {"amount", "category", "date"} : Get(Head(expenses), k) = Get(supplied, k)
    /\ categories = addCategory(last.pre.categories, Get(supplied, "category"))

\* the repository without the records of the id
WithoutId(list, id) ==
    LET Others(expense) == Get(expense, "id") # id IN SelectSeq(list, Others)

\* C21: when the storage write fails (quota exceeded or storage disabled)
\* during a controller add, delete, import or budget update, no exception
\* propagates out of the action, the repository's expenses and categories
\* after the action are the same as they would be had the write succeeded,
\* and later actions continue to work on that in-memory state.  Over a
\* storage that refuses every write: each action ends without an error shown
\* for the write and leaves the stored item alone; a valid add puts its
\* record at the head of the repository and registers its category, a delete
\* of an id that is held takes out the records of that id, an import of a
\* document makes the repository that document's, and a budget update makes
\* the settings those of the form and leaves the repository.
C21_WriteFailureNotFatal ==
    /\ Refused
    /\ last # NoCall => storage = last.pre.storage
    /\ last.op = "addExpense"
         => LET supplied == _getExpenseFormData(last.args[1])
            IN  IF ValidInput(supplied)
                THEN last.result = Undefined /\ HeadSupplied(supplied)
                ELSE /\ last.result = Alert(VALIDATION_ERROR)
                     /\ expenses = last.pre.expenses
                     /\ categories = last.pre.categories
    /\ last.op = "deleteExpense"
         => /\ expenses = WithoutId(last.pre.expenses, last.args[1])
            /\ categories = last.pre.categories
            /\ last.result = IF HoldsId(last.pre.expenses, last.args[1])
                             THEN Undefined ELSE Alert(NO_EXPENSE_FOUND)
    /\ last.op = "importData"
         => IF ImportedDocument.type = "object"
            THEN /\ last.result = Undefined
                 /\ expenses = Get(ImportedDocument, "expenses").val
                 /\ categories = Get(ImportedDocument, "categories").val
            ELSE /\ last.result = Alert(IMPORT_ERROR)
                 /\ expenses = last.pre.expenses
                 /\ categories = last.pre.categories
    /\ last.op = "later"
         => /\ last.result = Undefined
            /\ settings = MakeSettings(Obj(form))
            /\ expenses = last.pre.expenses
            /\ categories = last.pre.categories

\* over a storage whose quota is used up, a delete took out the record that
\* an add of this session had put next to the loaded one
C21_Witness ==
    /\ "full" \in DOMAIN storage
    /\ last.op = "deleteExpense"
    /\ last.args[1] = generateId(StartClock)
    /\ last.result = Undefined
    /\ Len(last.pre.expenses) = 2
    /\ expenses = <<StoredRecord>>
    /\ storage = last.pre.storage

----------------------------------------------------------------------------
(* The configured default categories.                                      *)

\* an import, accepted by the user and run to its end, of a document that
\* holds no array of categories
DefaultsSubstituted ==
    /\ last # NoCall
    /\ last.op = "importData"
    /\ last.args[2]
    /\ SharesDefaults(last.args[1])
    /\ last.result = Undefined

\* C23: no sequence of load, import, repository init, addExpense or
\* addCategory operations modifies the configured default category list:
\* CONFIG.DEFAULT_CATEGORIES stays the original seven categories, and an
\* import of a document without an array of categories leaves the repository
\* with exactly those seven.
C23_DefaultsNeverModified ==
    /\ DEFAULT_CATEGORIES = InitialDefaultCategories
    /\ DefaultsSubstituted => categories = InitialDefaultCategories

\* The defaults change only while the repository's category list is the
\* defaults' own array, and then the two lists are one.
DefaultsChangeOnlyWhileShared ==
    /\ DEFAULT_CATEGORIES # InitialDefaultCategories
            => \E n \in 1..Len(DEFAULT_CATEGORIES) :
                    SubSeq(DEFAULT_CATEGORIES, 1, n) = InitialDefaultCategories
    /\ categoriesShared => categories = DEFAULT_CATEGORIES

\* an import of a document without categories gave the repository more than
\* the seven defaults
ImportGaveGrownDefaults ==
    /\ DefaultsSubstituted
    /\ Len(categories) > Len(InitialDefaultCategories)

----------------------------------------------------------------------------
(* The budget form after initialization.                                   *)

\* init ran to its end over the stored item
InitCompleted ==
    /\ last # NoCall
    /\ last.op = "init"
    /\ last.args = <<"loadData">>
    /\ last.result = Undefined

\* the stored item is a document
HoldsDocument(text) ==
    /\ text.type = "text" /\ text.val # <<>>
    /\ JSONparse(text).ok
    /\ JSONparse(text).value.type = "object"

StoredSettings(text) == Get(JSONparse(text).value, "settings")

\* an add or a delete wrote the repository over a stored document
WroteOverDocument ==
    /\ last # NoCall
    /\ last.op \in {"addExpense", "deleteExpense"}
    /\ storage # last.pre.storage
    /\ HoldsDocument(last.pre.storage)

\* C24: after init, the budget form's fields equal the loaded settings and
\* the statistics engine's settings, so that an add or delete that follows
\* persists settings equal to those that were loaded.
C24_FormShowsLoadedSettings ==
    /\ InitCompleted
         => /\ form = _populateFormFields(Get(loadData, "settings"))
            /\ MakeSettings(Obj(form)) = settings
    /\ WroteOverDocument
         => /\ HoldsDocument(storage)
            /\ StoredSettings(storage) = StoredSettings(last.pre.storage)

\* What init leaves in the form: the loaded settings with today's date as
\* the start date, whatever start date was loaded.
FormShowsTodayAsStart ==
    InitCompleted
        => form = [_populateFormFields(Get(loadData, "settings"))
                        EXCEPT !.startDate = getTodayString(clock)]

\* an add stored today's date as the start date over a document that held
\* another
StoredStartReplaced ==
    /\ WroteOverDocument
    /\ HoldsDocument(storage)
    /\ Get(StoredSettings(storage), "startDate") = getTodayString(StartClock)
    /\ Get(StoredSettings(last.pre.storage), "startDate") = D0101

----------------------------------------------------------------------------
(* The filter chips.                                                       *)

\* the positions of the rendered chips that carry the class active
ActiveChips == {i \in 1..Len(modal.filters) : modal.filters[i].active}

\* exactly one chip is active, and it is the chip of the selected filter
OneActiveChip ==
    /\ Cardinality(ActiveChips) = 1
    /\ \A i \in ActiveChips :
            modal.filters[i].category = sanitizeHtml(TextContent(modal.currentCategory))

\* C27: after every ModalModule.show or filterByCategory, exactly one
\* rendered filter chip is active and it is the selected filter's chip.
C27_OneActiveChip ==
    last.op \in {"show", "filterByCategory"} => OneActiveChip

\* The same does hold where the selected filter is 'all' or a category of
\* the shown date, and no record of that date is in a category that bears
\* the name of the 'all' filter.
OneActiveChipAmongRendered ==
    ( /\ last.op \in {"show", "filterByCategory"}
      /\ \/ modal.currentCategory = ALL_CATEGORIES
         \/ Includes(getCategoriesForDate(modal.currentDate), modal.currentCategory)
      /\ ~Includes(getCategoriesForDate(modal.currentDate), ALL_CATEGORIES) )
        => OneActiveChip

\* a filter by a category of the date made that category's chip, the third
\* of three, the active one
ThirdChipActive ==
    /\ last.op = "filterByCategory"
    /\ Len(modal.filters) = 3
    /\ ActiveChips = {3}

\* no chip is active: the selected filter is no category of the shown date
NoChipActive ==
    /\ last.op \in {"show", "filterByCategory"}
    /\ ActiveChips = {}

\* two chips are active: a record of the date is in a category that bears
\* the name of the 'all' filter
TwoChipsActive ==
    /\ last.op \in {"show", "filterByCategory"}
    /\ Cardinality(ActiveChips) = 2

----------------------------------------------------------------------------
(* The modal's list against the repository.                                *)

\* the modal holds, and shows, the repository's records of its date
ModalListCurrent ==
    /\ modal.expenses = getExpensesByDate(modal.currentDate)
    /\ modal.list = _renderExpensesList([modal EXCEPT
                        !.expenses = getExpensesByDate(modal.currentDate)])

\* C28: whenever the modal is visible after a completed controller action
\* (add, delete, import), its expense list for its date equals
\* ExpenseManager.getExpensesByDate of that date.
C28_VisibleModalListCurrent ==
    (last.op \in {"addExpense", "deleteExpense", "importData"} /\ modal.isVisible)
        => ModalListCurrent

\* The same does hold after a delete that took out a record with a date.
ModalListCurrentAfterDelete ==
    (Deleted /\ Truthy(DeletedDate) /\ modal.isVisible) => ModalListCurrent

\* an add left the visible modal one record short of the repository's
\* records of its date
ModalShortAfterAdd ==
    /\ last.op = "addExpense"
    /\ last.result = Undefined
    /\ modal.isVisible
    /\ Len(getExpensesByDate(modal.currentDate)) = Len(modal.expenses) + 1

----------------------------------------------------------------------------
(* Texts on their way into markup.                                         *)

\* the values of the options _updateCategoryDatalist writes into #categoryList
_updateCategoryDatalist == [i \in 1..Len(categories) |-> ToText(categories[i])]

\* an add of the texts of the form went through
Added ==
    /\ last.op = "addExpense"
    /\ last.result = Undefined
    /\ expenses # last.pre.expenses

\* the category of the record the add made
AddedCategory == Get(Head(expenses), "category")

\* the message the modal shows for a filter that leaves no record
EmptyStateFor(category) == _renderEmptyState([modal EXCEPT !.currentCategory = category])

\* C29: every description or category string that comes from user input or
\* from an imported document is HTML-escaped exactly once on its way into
\* rendered markup: the modal item list, the filter chips, the empty-state
\* message and the category datalist.  Of a record just added from the
\* form: the item rendered for it holds the typed description and the
\* category escaped once, so does its chip, so does the empty-state message
\* for its category, and every option of the datalist is its category
\* escaped once.
C29_EscapedOnce ==
    Added
        => /\ _renderExpenseItem(Head(expenses)).description
                    = sanitizeHtml(Trim(last.args[1].description))
           /\ _renderExpenseItem(Head(expenses)).category = sanitizeHtml(AddedCategory.val)
           /\ _renderFilterChip(AddedCategory, FALSE).category
                    = sanitizeHtml(AddedCategory.val)
           /\ EmptyStateFor(AddedCategory)
                    = <<NO_EXPENSES_CATEGORY, " ", "\"">>
                        \o sanitizeHtml(AddedCategory.val) \o <<"\"">>
           /\ \A i \in 1..Len(categories) :
                    _updateCategoryDatalist[i] = sanitizeHtml(categories[i].val)

\* What holds: the item and the chip hold the category escaped once, and the
\* item holds the stored description escaped once, which for a record made
\* by the form is the typed description escaped twice.
StoredTextsEscapedOnce ==
    Added
        => /\ _renderExpenseItem(Head(expenses)).description
                    = sanitizeHtml(sanitizeHtml(Trim(last.args[1].description)))
           /\ _renderExpenseItem(Head(expenses)).category = sanitizeHtml(AddedCategory.val)
           /\ _renderFilterChip(AddedCategory, FALSE).category
                    = sanitizeHtml(AddedCategory.val)

\* the modal shows the record made from a description of "<" with the
\* markup of "&lt;"
ShownEscapedTwice ==
    /\ modal.isVisible
    /\ modal.list.kind = "expenses"
    /\ \E i \in 1..Len(modal.list.items) :
            modal.list.items[i].description = <<"&", "a", "m", "p", ";", "l", "t", ";">>

============================================================================
